---- MODULE Spec2Model ----
(***************************************************************************)
(* Ring perception (SSSR, PID-matrix method) and the Kekule search of      *)
(* CGRtools, modelled from CGRtools/algorithms/sssr.py and                 *)
(* CGRtools/algorithms/aromatics.py.                                       *)
(*                                                                         *)
(* Python containers are modelled by what the code relies on:              *)
(*   tuple / list      -> sequence                                         *)
(*   dict              -> sequence of <<key, value>> pairs in insertion    *)
(*                        order (assignment to a present key keeps its     *)
(*                        position, a new key is appended)                 *)
(*   set of atom ids   -> set; where the code iterates a set or pops from  *)
(*                        it, the order is the one CPython gives for a set *)
(*                        of small positive ints: ascending below 8        *)
(*   None              -> None (-1), atom ids are positive                 *)
(***************************************************************************)
EXTENDS Integers, Sequences, FiniteSets, TLC

VARIABLES
    \* ---- SSSR.__canonic_ring ----
    c_ring,         \* the ring given first
    c_variant,      \* a rotation / reflection of c_ring
    c_out,          \* __canonic_ring(c_ring)
    c_vout,         \* __canonic_ring(c_variant)
    c_again,        \* __canonic_ring(c_out)
    c_pc,
    \* ---- Aromatize._kekule_component (a generator) ----
    rings,          \* skeleton: atom -> list of ring neighbours
    double_bonded,  \* set of atoms (the code adds start to it in the fullerene case)
    pyroles,        \* set of atoms
    in_double,      \* the double_bonded argument as passed by the caller
    start,
    stack,          \* list of frames, a frame is a list of (atom, prev, bond, marker)
    path,           \* list of (atom, prev_atom, bond)
    hashed_path,
    nether_yielded,
    yielded,        \* the paths handed to the consumer so far, in order
    k_pc,           \* position of the generator
    ring_keys,      \* the keys of rings in the order the dict gives them
    \* ---- SSSR._sssr ----
    s_graph,        \* the adjacency given by the caller: atom -> set of atoms
    n_sssr,         \* the number of rings the caller asks for
    s_bonds,        \* the skinned adjacency
    s_paths,        \* __bfs: the terminated paths
    pid1,           \* dict i -> dict j -> dict (ni, mj) -> path
    pid2,           \* function (i, j) -> dict (ni, mj) -> path (never iterated by key)
    distances,      \* function (i, j) -> distance, only the pairs that were set
    s_todo,         \* __make_pid: the atoms k still to relax through
    s_cands,        \* what the generator __c_set yields, in order
    s_out,          \* the returned tuple of rings
    s_pc,           \* position in _sssr, or the exception that left it
    \* ---- Aromatize on a molecule ----
    mol,            \* the molecule: atoms, charges, radicals, hydrogens, hybridizations, bonds
    m_call,         \* the public method that is running or ran last, with its arguments
    m_pc,           \* position in that method
    m_ret,          \* what it returned, or the exception that left it
    m_before,       \* the molecule as it was when the method was called
    m_log,          \* the calls that ended before: method, result, molecule before and after
    m_skel,         \* what __prepare_rings returned: rings, pyroles, double_bonded
    m_comps,        \* __kekule_full: the components whose generator was not pulled yet
    m_form,         \* the bond orders found so far for the components already pulled
    m_copies,       \* enumerate_kekule: the copies handed to the consumer
    m_rings         \* thiele: the rings it set to order 4

None == -1

\* ------------------------------------------------------------------------
\* bounds of the model
\* ------------------------------------------------------------------------
MaxRingAtoms == 5       \* atom ids and ring length of the canonicalization inputs
MaxSkeleton == 5        \* atoms of an enumerated aromatic skeleton
MaxHetero == 1          \* atoms of an enumerated skeleton that are not plain
MaxNodes == 4           \* atoms of an enumerated graph given to _sssr
MaxRing == 5            \* atoms of an enumerated one-ring molecule
MaxCalls == 2           \* public methods called in turn on one molecule
MaxLive == 4            \* atoms of an enumerated skeleton of the termination check

\* ------------------------------------------------------------------------
\* Python list / tuple helpers
\* ------------------------------------------------------------------------
\* Python computes a value before it is passed on; Eager(x, e) is e, with x
\* computed first, which keeps the nesting of pending computations shallow
Eager(x, e) == IF x = x THEN e ELSE e

RECURSIVE SetToSeq(_)
SetToSeq(S) ==
    IF S = {} THEN <<>>
    ELSE LET m == CHOOSE x \in S : \A y \in S : x <= y
         IN <<m>> \o SetToSeq(S \ {m})

Range(s) == {s[i] : i \in 1..Len(s)}

\* iteration over a Python set of small non-negative ints: CPython keeps the
\* element x in slot x mod (table size) and walks the slots upwards; the table
\* has 8 slots up to 4 elements and 32 slots from the fifth on
RECURSIVE PySlots(_, _)
PySlots(S, slots) ==
    IF S = {} THEN <<>>
    ELSE LET x == CHOOSE y \in S : \A z \in S :
                      \/ y % slots < z % slots
                      \/ y % slots = z % slots /\ y <= z
         IN <<x>> \o PySlots(S \ {x}, slots)

PyIter(S) == PySlots(S, IF Cardinality(S) <= 4 THEN 8 ELSE 32)

Reverse(s) == [i \in 1..Len(s) |-> s[Len(s) + 1 - i]]

MinOf(S) == CHOOSE x \in S : \A y \in S : x <= y

\* list.index(x): 1-based position of the first occurrence
IndexOf(s, x) == MinOf({i \in 1..Len(s) : s[i] = x})

\* s[:n] for 0 <= n, clamped as Python clamps a slice
Take(s, n) == SubSeq(s, 1, IF n < Len(s) THEN n ELSE Len(s))

\* s[n:] (0-based n)
Drop(s, n) == SubSeq(s, n + 1, Len(s))

Last(s) == s[Len(s)]
Front(s) == SubSeq(s, 1, Len(s) - 1)
ReplaceLast(s, x) == [s EXCEPT ![Len(s)] = x]

\* (*ring[1:], ring[0])
Rotate(s) == Drop(s, 1) \o <<s[1]>>

\* the lists of ss joined in order
RECURSIVE Concat(_)
Concat(ss) ==
    IF Len(ss) = 0 THEN <<>>
    ELSE IF Len(ss) = 1 THEN ss[1]
    ELSE Concat(SubSeq(ss, 1, Len(ss) \div 2)) \o Concat(SubSeq(ss, Len(ss) \div 2 + 1, Len(ss)))

\* list.remove(x) for x present: drops the first occurrence
RemoveFirst(s, x) ==
    LET i == IndexOf(s, x) IN SubSeq(s, 1, i - 1) \o SubSeq(s, i + 1, Len(s))

\* ------------------------------------------------------------------------
\* dict with insertion order: a sequence of <<key, value>>
\* ------------------------------------------------------------------------
DKeys(d) == {d[i][1] : i \in 1..Len(d)}
DKeySeq(d) == [i \in 1..Len(d) |-> d[i][1]]
DValues(d) == [i \in 1..Len(d) |-> d[i][2]]
DHas(d, k) == k \in DKeys(d)
DPos(d, k) == CHOOSE i \in 1..Len(d) : d[i][1] = k
DGet(d, k) == d[DPos(d, k)][2]
\* d[k] = v
DSet(d, k, v) == IF DHas(d, k) THEN [d EXCEPT ![DPos(d, k)] = <<k, v>>] ELSE Append(d, <<k, v>>)
\* del d[k]
DDel(d, k) == SelectSeq(d, LAMBDA e : e[1] # k)
\* d[k] of a defaultdict: a missing key is inserted with the default
DTouch(d, k, default) == IF DHas(d, k) THEN d ELSE Append(d, <<k, default>>)
\* d.update(e)
RECURSIVE DUpdate(_, _)
DUpdate(d, e) ==
    Eager(d, IF e = <<>> THEN d ELSE DUpdate(DSet(d, e[1][1], e[1][2]), Tail(e)))

\* ------------------------------------------------------------------------
\* SSSR.__canonic_ring
\* ------------------------------------------------------------------------
\* a plausible slip: the reflection test of the "minimum is last" branch inverted
canonic_ring_flipped(ring) ==
    LET n == MinOf(Range(ring))
        ndx == IndexOf(ring, n)
        L == Len(ring)
    IN  IF ndx = 1
        THEN IF ring[L] < ring[2] THEN <<n>> \o Reverse(Drop(ring, 1)) ELSE ring
        ELSE IF ndx = L
        THEN IF ring[1] < ring[L - 1] THEN Reverse(ring) ELSE <<n>> \o SubSeq(ring, 1, L - 1)
        ELSE IF ring[ndx + 1] > ring[ndx - 1]
        THEN Reverse(SubSeq(ring, 1, ndx)) \o Reverse(SubSeq(ring, ndx + 1, L))
        ELSE SubSeq(ring, ndx, L) \o SubSeq(ring, 1, ndx - 1)

canonic_ring(ring) ==
    LET n == MinOf(Range(ring))
        ndx == IndexOf(ring, n)
        L == Len(ring)
    IN  IF ndx = 1
        THEN IF ring[L] < ring[2] THEN <<n>> \o Reverse(Drop(ring, 1)) ELSE ring
        ELSE IF ndx = L
        THEN IF ring[1] > ring[L - 1] THEN Reverse(ring) ELSE <<n>> \o SubSeq(ring, 1, L - 1)
        ELSE IF ring[ndx + 1] > ring[ndx - 1]
        THEN Reverse(SubSeq(ring, 1, ndx)) \o Reverse(SubSeq(ring, ndx + 1, L))
        ELSE SubSeq(ring, ndx, L) \o SubSeq(ring, 1, ndx - 1)

\* all tuples of n distinct atoms of S
RECURSIVE DistinctTuples(_, _)
DistinctTuples(S, n) ==
    IF n = 0 THEN {<<>>}
    ELSE UNION {{<<x>> \o t : t \in DistinctTuples(S \ {x}, n - 1)} : x \in S}

RingInputs == UNION {DistinctTuples(1..MaxRingAtoms, n) : n \in 3..MaxRingAtoms}

\* ------------------------------------------------------------------------
\* SSSR._skin_graph (Graph container; the specification's step 1: only simple
\* adjacency remains, so a self-loop is dropped and neighbours become a set)
\* ------------------------------------------------------------------------
skin_graph(bonds) == [n \in DOMAIN bonds |-> bonds[n] \ {n}]

\* ------------------------------------------------------------------------
\* SSSR.__bfs
\* ------------------------------------------------------------------------
\* {x: [tail, x] for x in bonds[tail] & atoms}
SeedStack(bonds, tail, atoms) ==
    LET xs == PyIter(bonds[tail] \cap atoms)
    IN [i \in 1..Len(xs) |-> <<xs[i], <<tail, xs[i]>>>>]

\* lines 85-95 / 107-117: the front at tail reaches n by the path pth;
\* acc holds next_stack (ns), found_odd (fo) and terminated (term)
BfsVisit(acc, bstack, tail, n, pth) ==
    IF DHas(bstack, n)  \* odd rings
    THEN [acc EXCEPT !.fo = @ \cup {tail}, !.term = Append(@, pth)]
    ELSE IF DHas(acc.ns, n)  \* even rings
    THEN IF Len(DGet(acc.ns, n)) # 1  \* prevent bicycle case
         THEN [acc EXCEPT !.term = @ \o <<pth, DGet(acc.ns, n)>>,
                          !.ns = DSet(@, n, <<n>>)]
         ELSE [acc EXCEPT !.term = Append(@, pth)]
    ELSE [acc EXCEPT !.ns = DSet(@, n, pth)]  \* grow must go on

\* lines 99-117: the loop over several neighbours
RECURSIVE BfsFork(_, _, _, _)
BfsFork(acc, bstack, tail, ns) ==
    Eager(acc,
    IF ns = <<>> THEN acc
    ELSE LET n == ns[1]
             acc1 == IF n \in acc.fo
                     THEN IF DHas(bstack, n)
                          THEN [acc EXCEPT !.ns = DDel(@, n)]
                          ELSE [acc EXCEPT !.ns = DSet(@, n, <<n>>)]
                     ELSE BfsVisit(acc, bstack, tail, n, <<tail, n>>)
         IN BfsFork(acc1, bstack, tail, Tail(ns)))

\* lines 75-117: one (tail, path) of the current front
BfsItem(bonds, atoms, bstack, acc, tail, pth) ==
    LET neighbors == bonds[tail] \cap atoms IN
    IF Cardinality(neighbors) = 1
    THEN LET n == MinOf(neighbors) IN
         IF n \in acc.fo
         THEN [acc EXCEPT !.term = IF Len(pth) # 1 THEN Append(@, pth) ELSE @,
                          !.ns = DSet(@, n, <<n>>)]
         ELSE BfsVisit(acc, bstack, tail, n, Append(pth, n))
    ELSE IF neighbors # {}
    THEN BfsFork([acc EXCEPT !.term = IF Len(pth) # 1 THEN Append(@, pth) ELSE @],
                 bstack, tail, PyIter(neighbors))
    ELSE acc

\* lines 74-117: the loop over the front
RECURSIVE BfsFront(_, _, _, _, _)
BfsFront(bonds, atoms, bstack, i, acc) ==
    Eager(acc,
    IF i > Len(bstack) THEN acc
    ELSE BfsFront(bonds, atoms, bstack, i + 1,
                  BfsItem(bonds, atoms, bstack, acc, bstack[i][1], bstack[i][2])))

\* lines 70-124: the while loop
RECURSIVE BfsLoop(_, _, _, _)
BfsLoop(bonds, atoms, next_stack, terminated) ==
    LET acc == BfsFront(bonds, atoms, next_stack, 1,
                        [ns |-> <<>>, fo |-> {}, term |-> terminated])
        left == atoms \ DKeys(next_stack)
    IN IF left = {} THEN acc.term
       ELSE IF acc.ns = <<>>
       THEN LET tail == MinOf(left)
            IN BfsLoop(bonds, left \ {tail}, SeedStack(bonds, tail, left \ {tail}), acc.term)
       ELSE BfsLoop(bonds, left, acc.ns, acc.term)

\* lines 65-68 and the loop; atoms.pop() of an empty set raises KeyError, that
\* case is decided by the caller of this operator
bfs(bonds) ==
    LET tail == MinOf(DOMAIN bonds)
        atoms == DOMAIN bonds \ {tail}
        xs == PyIter(bonds[tail])
    IN BfsLoop(bonds, atoms, [i \in 1..Len(xs) |-> <<xs[i], <<tail, xs[i]>>>>], <<>>)

\* ------------------------------------------------------------------------
\* SSSR.__make_pid
\* ------------------------------------------------------------------------
Inf == 1000000000

\* sorted(paths, key=len): stable
RECURSIVE SortByLen(_, _)
SortByLen(paths, L) ==
    IF \A i \in 1..Len(paths) : Len(paths[i]) < L THEN <<>>
    ELSE SelectSeq(paths, LAMBDA c : Len(c) = L) \o SortByLen(paths, L + 1)

DistGet(d, i, j) == IF <<i, j>> \in DOMAIN d THEN d[<<i, j>>] ELSE Inf
DistSet(d, i, j, v) == [q \in DOMAIN d \cup {<<i, j>>} |-> IF q = <<i, j>> THEN v ELSE d[q]]

P2Get(p2, i, j) == IF <<i, j>> \in DOMAIN p2 THEN p2[<<i, j>>] ELSE <<>>
P2Set(p2, i, j, w) == [q \in DOMAIN p2 \cup {<<i, j>>} |-> IF q = <<i, j>> THEN w ELSE p2[q]]

\* pid1[i][j] read through the two defaultdicts: missing keys are inserted
P1Touch(p1, i, j) ==
    LET a == DTouch(p1, i, <<>>)
    IN DSet(a, i, DTouch(DGet(a, i), j, <<>>))
P1Get(p1, i, j) ==
    IF DHas(p1, i) /\ DHas(DGet(p1, i), j) THEN DGet(DGet(p1, i), j) ELSE <<>>
\* pid1[i][j] = w
P1Set(p1, i, j, w) ==
    LET a == DTouch(p1, i, <<>>)
    IN DSet(a, i, DSet(DGet(a, i), j, w))

\* lines 133-143: one terminated path c
PidChain(st, c) ==
    LET di == Len(c) - 1
        n == c[1]
        m == c[Len(c)]
        nn == c[2]
        mm == c[Len(c) - 1]
    IN IF <<n, m>> \in DOMAIN st.dist /\ st.dist[<<n, m>>] # di
       THEN LET a == P2Set(st.p2, n, m, DSet(P2Get(st.p2, n, m), <<nn, mm>>, c))
                b == P2Set(a, m, n, DSet(P2Get(a, m, n), <<mm, nn>>, Reverse(c)))
            IN [st EXCEPT !.p2 = b]
       ELSE LET a == P1Set(st.p1, n, m, DSet(P1Get(P1Touch(st.p1, n, m), n, m), <<nn, mm>>, c))
                b == P1Set(a, m, n, DSet(P1Get(P1Touch(a, m, n), m, n), <<mm, nn>>, Reverse(c)))
            IN [st EXCEPT !.p1 = b,
                          !.dist = DistSet(DistSet(@, n, m, di), m, n, di)]

\* lines 133-143: the paths chains[a..b] in order
RECURSIVE PidChains(_, _, _, _)
PidChains(st, chains, a, b) ==
    Eager(st,
    IF a > b THEN st
    ELSE IF a = b THEN PidChain(st, chains[a])
    ELSE PidChains(PidChains(st, chains, a, (a + b) \div 2), chains, (a + b) \div 2 + 1, b))

\* a plausible slip: the atom k kept twice where the two paths meet
Join_twice(a, b) ==
    LET n == IF Len(a) < Len(b) THEN Len(a) ELSE Len(b)
    IN DUpdate(<<>>, [t \in 1..n |-> <<<<a[t][1][1], b[t][1][2]>>, a[t][2] \o b[t][2]>>])

\* {(ni, mj): ip[:-1] + jp for ((ni, _), ip), ((_, mj), jp) in zip(a.items(), b.items())}
Join(a, b) ==
    LET n == IF Len(a) < Len(b) THEN Len(a) ELSE Len(b)
    IN DUpdate(<<>>, [t \in 1..n |-> <<<<a[t][1][1], b[t][1][2]>>, Front(a[t][2]) \o b[t][2]>>])

\* lines 158-179: the pair (i, j) relaxed through k; dist is the table of the
\* previous round, st holds pid1, pid2 and new_distances
PidPair(st, dist, k, i, j) ==
    LET ij == DistGet(dist, i, j)
        ikj == DistGet(dist, i, k) + DistGet(dist, k, j)
        \* the comprehension reads pid1[i][k] and then pid1[k][j]
        Read(p1) == P1Touch(P1Touch(p1, i, k), k, j)
        New(p1) == Join(P1Get(p1, i, k), P1Get(p1, k, j))
    IN IF ij - ikj = 1  \* a new shortest path == previous shortest path - 1
       THEN LET a == P1Touch(st.p1, i, j)
                b == Read(a)
            IN [st EXCEPT !.p2 = P2Set(@, i, j, P1Get(a, i, j)),
                          !.p1 = P1Set(b, i, j, New(b)),
                          !.nd = DistSet(@, i, j, ikj)]
       ELSE IF ij > ikj  \* a new shortest path
       THEN LET b == Read(st.p1)
            IN [st EXCEPT !.p2 = P2Set(@, i, j, <<>>),
                          !.p1 = P1Set(b, i, j, New(b)),
                          !.nd = DistSet(@, i, j, ikj)]
       ELSE IF ij = ikj  \* another shortest path
       THEN LET a == P1Touch(st.p1, i, j)
                b == Read(a)
            IN [st EXCEPT !.p1 = P1Set(b, i, j, DUpdate(P1Get(b, i, j), New(b))),
                          !.nd = DistSet(@, i, j, ij)]
       ELSE IF ikj - ij = 1  \* shortest+1 path
       THEN LET b == Read(st.p1)
            IN [st EXCEPT !.p2 = P2Set(@, i, j, DUpdate(P2Get(@, i, j), New(b))),
                          !.p1 = b,
                          !.nd = DistSet(@, i, j, ij)]
       ELSE [st EXCEPT !.nd = DistSet(@, i, j, ij)]

\* lines 151-179: the keys js[a..b] in order as j, k and i themselves skipped
RECURSIVE PidRow(_, _, _, _, _, _, _)
PidRow(st, dist, k, i, js, a, b) ==
    Eager(st,
    IF a > b THEN st
    ELSE IF a = b
    THEN IF js[a] = k \/ js[a] = i THEN st ELSE PidPair(st, dist, k, i, js[a])
    ELSE PidRow(PidRow(st, dist, k, i, js, a, (a + b) \div 2),
                dist, k, i, js, (a + b) \div 2 + 1, b))

\* lines 147-179: the key i of the round of k
PidKey(st, dist, k, i, keys) ==
    IF i = k THEN st
    ELSE PidRow([st EXCEPT !.nd = DistSet(DistSet(@, k, i, DistGet(dist, i, k)),
                                          i, k, DistGet(dist, i, k))],
                dist, k, i, keys, 1, Len(keys))

\* lines 146-180: the round of k over the keys[a..b] of pid1 in dict order as i
RECURSIVE PidRound(_, _, _, _, _, _)
PidRound(st, dist, k, keys, a, b) ==
    Eager(st,
    IF a > b THEN st
    ELSE IF a = b THEN PidKey(st, dist, k, keys[a], keys)
    ELSE PidRound(PidRound(st, dist, k, keys, a, (a + b) \div 2),
                  dist, k, keys, (a + b) \div 2 + 1, b))

\* ------------------------------------------------------------------------
\* SSSR.__c_set
\* ------------------------------------------------------------------------
\* lines 196-207: the entries of c_set for the t-th key j of the row i; p2 is
\* <<>> where the code stores None
CSetEntry(p1i, p2, dist, i, t, seen) ==
    LET j == p1i[t][1]
        p1ij == DValues(p1i[t][2])
        p2ij == DValues(P2Get(p2, i, j))
        dij == DistGet(dist, i, j) * 2
    IN IF j \in seen THEN <<>>
       ELSE IF Len(p1ij) = 1
       THEN IF p2ij = <<>> THEN <<>>
            ELSE <<[num |-> dij + 1, p1 |-> p1ij, p2 |-> p2ij]>>
       ELSE IF p2ij = <<>>
       THEN <<[num |-> dij, p1 |-> p1ij, p2 |-> <<>>]>>
       ELSE <<[num |-> dij, p1 |-> p1ij, p2 |-> <<>>],
              [num |-> dij + 1, p1 |-> p1ij, p2 |-> p2ij]>>

\* lines 192-207: the row i
CSetRow(p1i, p2, dist, i, seen) ==
    Concat([t \in 1..Len(p1i) |-> CSetEntry(p1i, p2, dist, i, t, seen)])

\* lines 188-207: the rows in dict order, seen the keys i so far
CSetRows(p1, p2, dist) ==
    Concat([t \in 1..Len(p1) |->
              CSetRow(p1[t][2], p2, dist, p1[t][1], {p1[u][1] : u \in 1..t})])

\* sorted(c_set, key=itemgetter(0)): stable
RECURSIVE SortByNum(_)
SortByNum(es) ==
    IF es = <<>> THEN <<>>
    ELSE LET m == MinOf({es[i].num : i \in 1..Len(es)})
         IN SelectSeq(es, LAMBDA e : e.num = m) \o SortByNum(SelectSeq(es, LAMBDA e : e.num # m))

\* a plausible slip: the test for a repeated atom left out
Closed_unchecked(c1, c2) == <<canonic_ring(c1 \o Reverse(SubSeq(c2, 2, Len(c2) - 1)))>>

\* c1 + c2[-2:0:-1], kept when no atom repeats
Closed(c1, c2) ==
    LET c == c1 \o Reverse(SubSeq(c2, 2, Len(c2) - 1))
    IN IF Len(c) = Cardinality(Range(c)) THEN <<canonic_ring(c)>> ELSE <<>>

\* lines 210-220: the rings of one entry
CSetYield(e) ==
    IF e.num % 2 = 1
    THEN Concat([a \in 1..Len(e.p1) |-> Concat([b \in 1..Len(e.p2) |-> Closed(e.p1[a], e.p2[b])])])
    ELSE Concat([a \in 1..(IF Len(e.p1) = 0 THEN 0 ELSE Len(e.p1) - 1) |-> Closed(e.p1[a], e.p1[a + 1])])

c_set(p1, p2, dist) ==
    LET es == SortByNum(CSetRows(p1, p2, dist))
    IN Concat([t \in 1..Len(es) |-> CSetYield(es[t])])

\* ------------------------------------------------------------------------
\* SSSR.__ring_scissors, __ring_adjacency, __get_unique_chord
\* ------------------------------------------------------------------------
ring_scissors(ring, n, m) ==
    LET ndx == IndexOf(ring, n)
        mdx == IndexOf(ring, m)
        L == Len(ring)
    IN  IF ndx = 1
        THEN IF mdx = 2 THEN <<n>> \o Reverse(Drop(ring, 1)) ELSE ring
        ELSE IF ndx = L
        THEN IF mdx = 1 THEN Reverse(ring) ELSE <<n>> \o SubSeq(ring, 1, L - 1)
        ELSE IF ndx < mdx
        THEN Reverse(SubSeq(ring, 1, ndx)) \o Reverse(SubSeq(ring, ndx + 1, L))
        ELSE SubSeq(ring, ndx, L) \o SubSeq(ring, 1, ndx - 1)

\* adj[n].append(m); adj[m] = [n] along the ring, then adj[last].append(ring[0])
RECURSIVE RingAdjFrom(_, _, _)
RingAdjFrom(adj, ring, t) ==
    Eager(adj,
    IF t >= Len(ring)
    THEN [adj EXCEPT ![ring[Len(ring)]] = Append(@, ring[1])]
    ELSE LET n == ring[t]
             m == ring[t + 1]
             a == [adj EXCEPT ![n] = Append(@, m)]
         IN RingAdjFrom([x \in DOMAIN a \cup {m} |-> IF x = m THEN <<n>> ELSE a[x]], ring, t + 1))

ring_adjacency(ring) == RingAdjFrom([x \in {ring[1]} |-> <<ring[Len(ring)]>>], ring, 1)

NoChord == [found |-> FALSE, chord |-> <<>>]

\* lines 326-331: the first rotation of ring whose first lc atoms are common
RECURSIVE ChordScan(_, _, _, _)
ChordScan(ring, common, lc, left) ==
    IF common = Range(SubSeq(ring, 1, lc))
    THEN [found |-> TRUE, chord |-> SubSeq(ring, lc, Len(ring)) \o <<ring[1]>>]
    ELSE IF left = 0 THEN NoChord
    ELSE ChordScan(Rotate(ring), common, lc, left - 1)

get_unique_chord(ring, common) ==
    LET lc == Cardinality(common) IN
    IF Len(ring) = lc
    THEN IF common = Range(ring) THEN [found |-> TRUE, chord |-> <<>>] ELSE NoChord
    ELSE ChordScan(ring, common, lc, Len(ring) - 1)

\* ------------------------------------------------------------------------
\* SSSR.__connected_rings
\* ------------------------------------------------------------------------
\* s[1:-1]
Interior(s) == SubSeq(s, 2, Len(s) - 1)

NoMerge == [merged |-> FALSE, ring |-> <<>>]

\* lines 343-379: the contour of c and r when they merge
MergeRings(c, r) ==
    LET ck == ring_adjacency(c)
        rk == ring_adjacency(r)
        common == DOMAIN rk \cap DOMAIN ck
    IN IF Cardinality(common) = 2  \* one common bond
       THEN LET n == MinOf(common)
                m == MinOf(common \ {n})
            IN IF m \in Range(ck[n]) /\ m \in Range(rk[n])  \* only common bond!
               THEN [merged |-> TRUE,
                     ring |-> canonic_ring(ring_scissors(c, n, m) \o Interior(ring_scissors(r, m, n)))]
               ELSE NoMerge
       ELSE IF Cardinality(common) > 2
       THEN LET cc == get_unique_chord(c, common)
                rr == get_unique_chord(r, common)
            IN IF ~cc.found \/ ~rr.found THEN NoMerge  \* skip multitouched rings
               ELSE IF cc.chord # <<>>
               THEN IF rr.chord # <<>>
                    THEN LET r2 == IF rr.chord[1] = cc.chord[1] THEN Reverse(rr.chord) ELSE rr.chord
                         IN [merged |-> TRUE, ring |-> canonic_ring(cc.chord \o Interior(r2))]
                    ELSE [merged |-> TRUE, ring |-> canonic_ring(cc.chord)]
               ELSE IF rr.chord # <<>>
               THEN [merged |-> TRUE, ring |-> canonic_ring(rr.chord)]
               ELSE NoMerge
       ELSE NoMerge

\* lines 340-381: rings[i] is merged into the first later ring it merges with,
\* or it goes to out
RECURSIVE TryMerge(_, _, _)
TryMerge(rs, i, j) ==
    IF j > Len(rs) THEN [merged |-> FALSE, rings |-> rs]
    ELSE LET mr == MergeRings(rs[i], rs[j])
         IN IF mr.merged THEN [merged |-> TRUE, rings |-> [rs EXCEPT ![j] = mr.ring]]
            ELSE TryMerge(rs, i, j + 1)

RECURSIVE ConnectedFrom(_, _)
ConnectedFrom(rs, i) ==
    IF i > Len(rs) THEN <<>>
    ELSE LET t == TryMerge(rs, i, i + 1)
         IN (IF t.merged THEN <<>> ELSE <<rs[i]>>) \o ConnectedFrom(t.rings, i + 1)

connected_rings(rs) == ConnectedFrom(rs, 1)

\* ------------------------------------------------------------------------
\* SSSR.__is_condensed_ring
\* ------------------------------------------------------------------------
NoContour == [made |-> FALSE, ring |-> <<>>]

\* lines 295-311: the macrocycle of the contour parent and the ring child
Contour(parent, child) ==
    LET p_adj == ring_adjacency(parent)
        common == DOMAIN p_adj \cap DOMAIN ring_adjacency(child)
    IN IF Cardinality(common) > 2  \* only terminal common atoms required
       THEN LET term == {n \in common : Cardinality(common \cap Range(p_adj[n])) = 1}
            IN IF Cardinality(term) # 2 THEN NoContour  \* skip multiple contacts
               ELSE LET inner == common \ term
                        n == MinOf(term)
                        m == MinOf(term \ {n})
                        pp == SelectSeq(parent, LAMBDA x : x \notin inner)
                        cp == SelectSeq(child, LAMBDA x : x \notin inner)
                    IN [made |-> TRUE,
                        ring |-> canonic_ring(ring_scissors(pp, n, m) \o Interior(ring_scissors(cp, m, n)))]
       ELSE IF Cardinality(common) = 2
       THEN LET n == MinOf(common)
                m == MinOf(common \ {n})
            IN [made |-> TRUE,
                ring |-> canonic_ring(ring_scissors(parent, n, m) \o Interior(ring_scissors(child, m, n)))]
       ELSE NoContour  \* point connections

\* lines 286-316: the depth-first walk over neighbour rings; it visits every
\* path of unseen rings, so the order of the children does not change the answer
RECURSIVE Macrocycle(_, _, _, _, _, _)
Macrocycle(c, nb, parent, depth_now, children, seen) ==
    \E child \in children \ seen :
        LET mc == Contour(parent, child) IN
        /\ mc.made
        /\ \/ c = mc.ring
           \/ /\ depth_now > 0
              /\ 2 < Len(mc.ring) /\ Len(mc.ring) <= Len(c) + 1
              /\ Macrocycle(c, nb, mc.ring, depth_now - 1, nb[child], seen \cup {child})

is_condensed_ring(c, sssr) ==
    LET ck == DOMAIN ring_adjacency(c)
        nbset == {x \in Range(sssr) : Cardinality(DOMAIN ring_adjacency(x) \cap ck) > 1}
        nb == [x \in nbset |->
                 {y \in nbset \ {x} :
                    Cardinality(DOMAIN ring_adjacency(x) \cap DOMAIN ring_adjacency(y)) > 1}]
    IN /\ Cardinality(nbset) > 1
       /\ \E st \in nbset :
             /\ nb[st] # {}
             /\ Macrocycle(c, nb, st, Cardinality(nbset) - 1, nb[st], {st})

\* ------------------------------------------------------------------------
\* SSSR.__rings_filter
\* ------------------------------------------------------------------------
\* a plausible slip: the greedy pass stops one ring early
Reached_early(sssr, n) == Len(sssr) >= n - 1

\* len(sssr) == n_sssr
Reached(sssr, n) == Len(sssr) = n

\* lines 394-404: the body of the loop for the candidate c
GreedyStep(st, c, n) ==
    IF c \in st.seen THEN st
    ELSE IF Range(c) \subseteq st.atoms  \* potentially condensed ring
    THEN [st EXCEPT !.seen = @ \cup {c}, !.hold = Append(@, c)]
    ELSE [st EXCEPT !.seen = @ \cup {c}, !.atoms = @ \cup Range(c), !.sssr = Append(@, c),
                    !.done = Reached(Append(st.sssr, c), n)]

\* lines 394-404: the candidates cands[a..b] in order; the loop is left as
\* soon as n rings are accepted
RECURSIVE Greedy(_, _, _, _, _)
Greedy(cands, st, n, a, b) ==
    IF st.done \/ a > b THEN st
    ELSE IF a = b THEN GreedyStep(st, cands[a], n)
    ELSE Greedy(cands, Greedy(cands, st, n, a, (a + b) \div 2), n, (a + b) \div 2 + 1, b)

\* lines 390-404
GreedyPass(cands, n) ==
    Greedy(cands, [seen |-> {cands[1]}, atoms |-> Range(cands[1]),
                   sssr |-> <<cands[1]>>, hold |-> <<>>, done |-> FALSE], n, 2, Len(cands))

\* a plausible slip: a held ring is accepted without the test of the count
RepairStep_uncounted(st, c, n) ==
    IF c \in Range(st.condensed) \/ is_condensed_ring(c, st.sssr) THEN st
    ELSE [st EXCEPT !.sssr = Append(@, c),
                    !.condensed = connected_rings(<<c>> \o st.condensed)]

\* lines 411-418: the body of the loop for the held ring c
RepairStep(st, c, n) ==
    IF c \in Range(st.condensed) \/ is_condensed_ring(c, st.sssr) THEN st
    ELSE IF Reached(Append(st.sssr, c), n)
    THEN [st EXCEPT !.sssr = Append(@, c), !.done = TRUE]
    ELSE [st EXCEPT !.sssr = Append(@, c),
                    !.condensed = connected_rings(<<c>> \o st.condensed)]

\* lines 410-418: the held rings hold[a..b] in order against the contours of
\* the accepted ones
RECURSIVE Repair(_, _, _, _, _)
Repair(hold, st, n, a, b) ==
    IF st.done \/ a > b THEN st
    ELSE IF a = b THEN RepairStep(st, hold[a], n)
    ELSE Repair(hold, Repair(hold, st, n, a, (a + b) \div 2), n, (a + b) \div 2 + 1, b)

\* the outcome of __rings_filter(rings, n_sssr): what is returned or raised
rings_filter(cands, n) ==
    IF cands = <<>> THEN [pc |-> "StopIteration", out |-> <<>>]  \* next(rings)
    ELSE IF n = 1 THEN [pc |-> "returned", out |-> <<cands[1]>>]
    ELSE LET g == GreedyPass(cands, n)
         IN IF g.done THEN [pc |-> "returned", out |-> g.sssr]
            ELSE LET r == Repair(g.hold, [sssr |-> g.sssr, condensed |-> connected_rings(g.sssr),
                                          done |-> FALSE], n, 1, Len(g.hold))
                 IN IF r.done THEN [pc |-> "returned", out |-> SortByLen(r.sssr, 0)]
                    ELSE [pc |-> "ImplementationError", out |-> <<>>]

\* ------------------------------------------------------------------------
\* Aromatize._kekule_component
\* ------------------------------------------------------------------------
Atoms == DOMAIN rings

\* size = sum(len(x) for x in rings.values()) // 2
RECURSIVE SumLen(_, _)
SumLen(f, S) ==
    IF S = {} THEN 0
    ELSE LET a == MinOf(S) IN Len(f[a]) + SumLen(f, S \ {a})

size == SumLen(rings, Atoms) \div 2

\* {x for x, *_ in path}
HashPath(pth) == {pth[i][1] : i \in 1..Len(pth)}

\* a plausible slip: the frame is dropped but the path is not rolled back
DropFrame_keep(stk, pth, hp) ==
    LET rest == SubSeq(stk, 1, Len(stk) - 1) IN
    IF rest # <<>> /\ rest[Len(rest)] = <<>>
    THEN [stack |-> rest, path |-> pth, hashed |-> hp, err |-> "IndexError"]
    ELSE [stack |-> rest, path |-> pth, hashed |-> hp, err |-> "none"]

\* del stack[-1]
\* if stack:
\*     path = path[:stack[-1][-1][-1]]
\*     hashed_path = {x for x, *_ in path}
\* stack[-1][-1] of an empty frame is an IndexError; path[:None] is the whole path
DropFrame(stk, pth, hp) ==
    LET rest == Front(stk) IN
    IF rest = <<>> THEN [stack |-> rest, path |-> pth, hashed |-> hp, err |-> "none"]
    ELSE IF Last(rest) = <<>>
    THEN [stack |-> rest, path |-> pth, hashed |-> hp, err |-> "IndexError"]
    ELSE LET mark == Last(Last(rest))[4]
             cut == IF mark = None THEN pth ELSE Take(pth, mark)
         IN [stack |-> rest, path |-> cut, hashed |-> HashPath(cut), err |-> "none"]

\* a plausible slip: the entry of a closure looked up with its atoms swapped
RECURSIVE CloseAll_swapped(_, _, _, _)
CloseAll_swapped(top, pth, atom, closures) ==
    IF closures = <<>> THEN [top |-> top, path |-> pth, err |-> "none"]
    ELSE LET c == closures[1]
             entry == <<c, atom, 1, None>>
             pth1 == Append(pth, <<c, atom, 1>>)
         IN IF entry \notin Range(top)
            THEN [top |-> top, path |-> pth1, err |-> "ValueError"]
            ELSE CloseAll_swapped(RemoveFirst(top, entry), pth1, atom, Tail(closures))

\* a plausible slip: the closures are listed in the path but their entries
\* stay in the frame
CloseAll_kept(top, pth, atom, closures) ==
    [top |-> top, path |-> pth \o [i \in 1..Len(closures) |-> <<closures[i], atom, 1>>],
     err |-> "none"]

\* for next_atom in closures:
\*     path.append((next_atom, atom, 1))
\*     stack[-1].remove((atom, next_atom, 1, None))
\* list.remove of an absent entry is a ValueError
RECURSIVE CloseAll(_, _, _, _)
CloseAll(top, pth, atom, closures) ==
    IF closures = <<>> THEN [top |-> top, path |-> pth, err |-> "none"]
    ELSE LET c == closures[1]
             entry == <<atom, c, 1, None>>
             pth1 == Append(pth, <<c, atom, 1>>)
         IN IF entry \notin Range(top)
            THEN [top |-> top, path |-> pth1, err |-> "ValueError"]
            ELSE CloseAll(RemoveFirst(top, entry), pth1, atom, Tail(closures))

\* a plausible slip: the forward bonds of a "double in" atom pushed as double
SingleOut_double(atom, for_stack) == [i \in 1..Len(for_stack) |-> <<for_stack[i], atom, 2, None>>]

\* entries appended for the forward atoms of a "double in - single out" atom
SingleOut(atom, for_stack) == [i \in 1..Len(for_stack) |-> <<for_stack[i], atom, 1, None>>]

\* a plausible slip: the bond that closes the walk at start always pushed double
LoopBond_double(bond0, db) == 2

\* order of the entry (loop, atom, order, None) that closes the walk at start
\* (lines 594-616): double only when the walk came in single and the
\* component has no double-bonded atom
LoopBond(bond0, db) == IF bond0 # 2 /\ db = {} THEN 2 ELSE 1

\* the body of the while loop from the neighbour scan on (lines 581-671), for
\* the popped entry (atom, prev_atom, bond); stk is the stack after the pop,
\* pth and hp the path and hashed_path after the append of the popped entry;
\* db is the current double_bonded set
Grow(stk, pth, hp, atom, prev_atom, bond0, db) ==
    LET nbrs == rings[atom]
        IsLoop(n) == n # prev_atom /\ n = start
        IsClosure(n) == n # prev_atom /\ n # start /\ n \in hp
        IsForward(n) == n # prev_atom /\ n # start /\ n \notin hp
        loops == SelectSeq(nbrs, IsLoop)
        closures == SelectSeq(nbrs, IsClosure)
        for_stack == SelectSeq(nbrs, IsForward)
        found == loops # <<>>
        loop == IF found THEN Last(loops) ELSE 0
        top0 == Last(stk)
        Dead(s, q, h) ==
            LET d == DropFrame(s, q, h)
            IN [stack |-> d.stack, path |-> d.path, hashed |-> d.hashed, err |-> d.err]
        \* ---- if loop: ----
        loopDies ==
            found /\ (IF bond0 = 2 THEN db = {}
                      ELSE db # {} /\ ~(for_stack # <<>> \/ atom \in db \/ atom \in pyroles))
        closeBond == LoopBond(bond0, db)
        top1 == IF found THEN <<<<loop, atom, closeBond, None>>>> \o top0 ELSE top0
        bond == IF found /\ bond0 # 2 /\ db = {} THEN 2 ELSE bond0
        Live(t, q) == [stack |-> ReplaceLast(stk, t), path |-> q, hashed |-> hp, err |-> "none"]
    IN
    IF loopDies THEN Dead(stk, pth, hp)
    ELSE IF bond = 2 \/ atom \in db
    THEN \* double in - single out. quinone has two single bonds
         LET r == CloseAll(top1, pth, atom, closures) IN
         IF r.err # "none"
         THEN [stack |-> ReplaceLast(stk, r.top), path |-> r.path, hashed |-> hp, err |-> r.err]
         ELSE Live(r.top \o SingleOut(atom, for_stack), r.path)
    ELSE IF Len(for_stack) = 1
    THEN LET next_atom == for_stack[1] IN
         IF next_atom \in db
         THEN IF atom \in pyroles
              THEN Live(Append(top1, <<next_atom, atom, 1, None>>), pth)
              ELSE Dead(ReplaceLast(stk, top1), pth, hp)
         ELSE IF atom \in pyroles
              THEN LET opposite == Append(top1, <<next_atom, atom, 2, None>>)
                       mine == Append(top1, <<next_atom, atom, 1, Len(pth)>>)
                   IN [stack |-> Append(ReplaceLast(stk, mine), opposite),
                       path |-> pth, hashed |-> hp, err |-> "none"]
              ELSE LET top2 == Append(top1, <<next_atom, atom, 2, None>>) IN
                   IF closures # <<>>
                   THEN LET r == CloseAll(top2, pth, atom, <<closures[1]>>) IN
                        [stack |-> ReplaceLast(stk, r.top), path |-> r.path,
                         hashed |-> hp, err |-> r.err]
                   ELSE Live(top2, pth)
    ELSE IF for_stack # <<>>
    THEN LET next_atom1 == for_stack[1]
             next_atom2 == for_stack[2]
         IN
         IF next_atom1 \in db
         THEN IF next_atom2 \in db
              THEN Dead(ReplaceLast(stk, top1), pth, hp)
              ELSE Live(top1 \o <<<<next_atom1, atom, 1, None>>, <<next_atom2, atom, 2, None>>>>, pth)
         ELSE IF next_atom2 \in db
         THEN Live(top1 \o <<<<next_atom2, atom, 1, None>>, <<next_atom1, atom, 2, None>>>>, pth)
         ELSE LET mine == top1 \o <<<<next_atom1, atom, 1, None>>,
                                    <<next_atom2, atom, 2, Len(pth)>>>>
                  opposite == top1 \o <<<<next_atom2, atom, 1, None>>,
                                        <<next_atom1, atom, 2, None>>>>
              IN [stack |-> Append(ReplaceLast(stk, mine), opposite),
                  path |-> pth, hashed |-> hp, err |-> "none"]
    ELSE IF closures # <<>> /\ atom \notin pyroles
    THEN Dead(ReplaceLast(stk, top1), pth, hp)
    ELSE Live(top1, pth)

\* ---- inputs: connected skeletons with every degree 2 or 3 ----
Pairs(n) == {e \in SUBSET (1..n) : Cardinality(e) = 2}

Nbrs(E, a) == {b \in UNION E : {a, b} \in E}

RECURSIVE Reach(_, _)
Reach(E, S) ==
    LET T == S \cup UNION {Nbrs(E, a) : a \in S}
    IN IF T = S THEN S ELSE Reach(E, T)

IsSkeleton(n, E) ==
    /\ \A a \in 1..n : Cardinality(Nbrs(E, a)) \in {2, 3}
    /\ Reach(E, {1}) = 1..n

\* the neighbour lists as the molecule stores them, atoms and bonds added in
\* ascending order
AsRings(n, E) == [a \in 1..n |-> SetToSeq(Nbrs(E, a))]

NaphthaleneEdges ==
    {{1, 2}, {2, 3}, {3, 4}, {4, 5}, {5, 6}, {1, 6},
     {5, 7}, {7, 8}, {8, 9}, {9, 10}, {6, 10}}

\* two three-rings joined by the bond 1-4, which lies in no ring
BridgedTrianglesEdges ==
    {{1, 2}, {1, 3}, {2, 3}, {1, 4}, {4, 5}, {4, 6}, {5, 6}}

SkeletonInputs ==
    {AsRings(10, NaphthaleneEdges), AsRings(6, BridgedTrianglesEdges)} \cup
    UNION {{AsRings(n, E) : E \in {F \in SUBSET Pairs(n) : IsSkeleton(n, F)}} :
           n \in 3..MaxSkeleton}

IsNaphthalene == rings = AsRings(10, NaphthaleneEdges)

KekuleIdle ==
    /\ rings = <<>> /\ ring_keys = <<>> /\ double_bonded = {} /\ pyroles = {} /\ in_double = {}
    /\ start = None /\ stack = <<>> /\ path = <<>> /\ hashed_path = {}
    /\ nether_yielded = TRUE /\ yielded = <<>> /\ k_pc = "idle"

CanonIdle ==
    /\ c_ring = <<>> /\ c_variant = <<>> /\ c_out = <<>> /\ c_vout = <<>>
    /\ c_again = <<>> /\ c_pc = "idle"

kekule_vars == <<rings, ring_keys, double_bonded, pyroles, in_double, start, stack, path,
                 hashed_path, nether_yielded, yielded, k_pc>>
canon_vars == <<c_ring, c_variant, c_out, c_vout, c_again, c_pc>>
sssr_vars == <<s_graph, n_sssr, s_bonds, s_paths, pid1, pid2, distances, s_todo,
               s_cands, s_out, s_pc>>
mol_vars == <<mol, m_call, m_pc, m_ret, m_before, m_log, m_skel, m_comps, m_form, m_copies,
              m_rings>>
vars == <<canon_vars, kekule_vars, sssr_vars, mol_vars>>

MolIdle ==
    /\ mol = <<>> /\ m_call = <<>> /\ m_pc = "idle" /\ m_ret = "none" /\ m_before = <<>>
    /\ m_log = <<>> /\ m_skel = <<>> /\ m_comps = <<>> /\ m_form = <<>> /\ m_copies = <<>>
    /\ m_rings = <<>>

SssrIdle ==
    /\ s_graph = <<>> /\ n_sssr = 0 /\ s_bonds = <<>> /\ s_paths = <<>>
    /\ pid1 = <<>> /\ pid2 = <<>> /\ distances = <<>> /\ s_todo = <<>>
    /\ s_cands = <<>> /\ s_out = <<>> /\ s_pc = "idle"

InitCanon ==
    /\ c_ring \in RingInputs
    /\ c_variant = c_ring
    /\ c_out = <<>> /\ c_vout = <<>> /\ c_again = <<>>
    /\ c_pc = "variant"
    /\ KekuleIdle
    /\ SssrIdle
    /\ MolIdle

\* the caller holds the same ring read from another start atom
RotateRing ==
    /\ c_pc = "variant"
    /\ c_variant' = Rotate(c_variant)
    /\ c_variant' # c_ring
    /\ UNCHANGED <<c_ring, c_out, c_vout, c_again, c_pc, kekule_vars, sssr_vars, mol_vars>>

\* ... or read in the other direction
ReflectRing ==
    /\ c_pc = "variant"
    /\ c_variant' = Reverse(c_variant)
    /\ UNCHANGED <<c_ring, c_out, c_vout, c_again, c_pc, kekule_vars, sssr_vars, mol_vars>>

CanonRings ==
    /\ c_pc = "variant"
    /\ c_out' = canonic_ring(c_ring)
    /\ c_vout' = canonic_ring(c_variant)
    /\ c_pc' = "canonic"
    /\ UNCHANGED <<c_ring, c_variant, c_again, kekule_vars, sssr_vars, mol_vars>>

CanonAgain ==
    /\ c_pc = "canonic"
    /\ c_again' = canonic_ring(c_out)
    /\ c_pc' = "again"
    /\ UNCHANGED <<c_ring, c_variant, c_out, c_vout, kekule_vars, sssr_vars, mol_vars>>

NextCanon == RotateRing \/ ReflectRing \/ CanonRings \/ CanonAgain

SpecCanon == InitCanon /\ [][NextCanon]_vars

\* ------------------------------------------------------------------------
\* SSSR._sssr as its caller runs it
\* ------------------------------------------------------------------------
AsGraph(n, E) == [a \in 1..n |-> Nbrs(E, a)]

GraphEdges(g) == {e \in SUBSET (DOMAIN g) : \E a \in e : \E b \in g[a] : b # a /\ e = {a, b}}

RECURSIVE Components(_, _)
Components(g, left) ==
    IF left = {} THEN 0
    ELSE 1 + Components(g, left \ Reach(GraphEdges(g), {MinOf(left)}))

\* edges - vertices + connected components
CircuitRank(g) ==
    Cardinality(GraphEdges(g)) - Cardinality(DOMAIN g) + Components(g, DOMAIN g)

\* two tetrahedra {1,3,4,5} and {2,3,4,5} on a common face, bridged by atom 6
BridgedTetrahedraEdges ==
    {{1, 3}, {1, 4}, {1, 5}, {1, 6}, {2, 3}, {2, 4}, {2, 5}, {2, 6},
     {3, 4}, {3, 5}, {4, 5}, {4, 6}}

\* the triangular prism, a small cage
PrismEdges ==
    {{1, 2}, {2, 3}, {1, 3}, {4, 5}, {5, 6}, {4, 6}, {1, 4}, {2, 5}, {3, 6}}

\* the complete bipartite graph on {1,2,3} and {4,5,6}
BipartiteEdges == {{a, b} : <<a, b>> \in {1, 2, 3} \X {4, 5, 6}}

\* the bicyclo[2.2.1]heptane skeleton, two bridgeheads joined by three bridges
NorbornaneEdges ==
    {{1, 2}, {2, 3}, {3, 4}, {4, 5}, {5, 6}, {1, 6}, {1, 7}, {4, 7}}

\* a 3-ring and a 4-ring fused on the bond 1-2
FusedThreeFourEdges == {{1, 2}, {2, 3}, {1, 3}, {2, 4}, {4, 5}, {1, 5}}

\* the cube: the four-rings 1-2-3-4 and 5-6-7-8 joined atom by atom
CubeEdges ==
    {{1, 2}, {2, 3}, {3, 4}, {1, 4}, {5, 6}, {6, 7}, {7, 8}, {5, 8},
     {1, 5}, {2, 6}, {3, 7}, {4, 8}}

GraphInputs ==
    {AsGraph(6, BridgedTetrahedraEdges), AsGraph(6, PrismEdges), AsGraph(6, BipartiteEdges),
     AsGraph(7, NorbornaneEdges), AsGraph(5, FusedThreeFourEdges), AsGraph(8, CubeEdges)} \cup
    UNION {{AsGraph(n, E) : E \in SUBSET Pairs(n)} : n \in 0..MaxNodes}

\* the caller names the number of rings it requires: the circuit rank of the
\* graph, or one ring more than the graph can give
InitSssr ==
    /\ s_graph \in GraphInputs
    /\ n_sssr \in {CircuitRank(s_graph), CircuitRank(s_graph) + 1} \ {0}
    /\ s_bonds = <<>> /\ s_paths = <<>>
    /\ pid1 = <<>> /\ pid2 = <<>> /\ distances = <<>> /\ s_todo = <<>>
    /\ s_cands = <<>> /\ s_out = <<>> /\ s_pc = "call"
    /\ CanonIdle
    /\ KekuleIdle
    /\ MolIdle

\* line 58
SkinGraph ==
    /\ s_pc = "call"
    /\ s_bonds' = skin_graph(s_graph)
    /\ s_pc' = "bfs"
    /\ UNCHANGED <<s_graph, n_sssr, s_paths, pid1, pid2, distances, s_todo, s_cands, s_out,
                   canon_vars, kekule_vars, mol_vars>>

\* line 59
Bfs ==
    /\ s_pc = "bfs"
    /\ IF DOMAIN s_bonds = {}
       THEN s_pc' = "KeyError" /\ UNCHANGED s_paths  \* atoms.pop() of an empty set
       ELSE s_paths' = bfs(s_bonds) /\ s_pc' = "pid"
    /\ UNCHANGED <<s_graph, n_sssr, s_bonds, pid1, pid2, distances, s_todo, s_cands, s_out,
                   canon_vars, kekule_vars, mol_vars>>

\* lines 129-143
MakePidChains ==
    /\ s_pc = "pid"
    /\ LET st == PidChains([p1 |-> <<>>, p2 |-> <<>>, dist |-> <<>>], SortByLen(s_paths, 0),
                             1, Len(s_paths))
       IN /\ pid1' = st.p1 /\ pid2' = st.p2 /\ distances' = st.dist
          /\ s_todo' = DKeySeq(st.p1)
    /\ s_pc' = "relax"
    /\ UNCHANGED <<s_graph, n_sssr, s_bonds, s_paths, s_cands, s_out, canon_vars, kekule_vars, mol_vars>>

\* lines 145-180: the round of the next k
MakePidRound ==
    /\ s_pc = "relax"
    /\ s_todo # <<>>
    /\ LET st == PidRound([p1 |-> pid1, p2 |-> pid2, nd |-> <<>>], distances, s_todo[1],
                          DKeySeq(pid1), 1, Len(pid1))
       IN /\ pid1' = st.p1 /\ pid2' = st.p2 /\ distances' = st.nd
    /\ s_todo' = Tail(s_todo)
    /\ UNCHANGED <<s_graph, n_sssr, s_bonds, s_paths, s_cands, s_out, s_pc,
                   canon_vars, kekule_vars, mol_vars>>

\* line 61, the argument: everything the generator __c_set will yield
CSet ==
    /\ s_pc = "relax"
    /\ s_todo = <<>>
    /\ s_cands' = c_set(pid1, pid2, distances)
    /\ s_pc' = "filter"
    /\ UNCHANGED <<s_graph, n_sssr, s_bonds, s_paths, pid1, pid2, distances, s_todo, s_out,
                   canon_vars, kekule_vars, mol_vars>>

\* line 61, the call
RingsFilter ==
    /\ s_pc = "filter"
    /\ LET r == rings_filter(s_cands, n_sssr)
       IN s_out' = r.out /\ s_pc' = r.pc
    /\ UNCHANGED <<s_graph, n_sssr, s_bonds, s_paths, pid1, pid2, distances, s_todo, s_cands,
                   canon_vars, kekule_vars, mol_vars>>

NextSssr == SkinGraph \/ Bfs \/ MakePidChains \/ MakePidRound \/ CSet \/ RingsFilter

SpecSssr == InitSssr /\ [][NextSssr]_vars

\* ---- rings as cycles of the input graph ----
RankGiven == n_sssr = CircuitRank(s_graph)

\* the bonds of a ring, the closing one included
RingEdges(r) == {{r[i], r[(i % Len(r)) + 1]} : i \in 1..Len(r)}

IsSimpleCycle(r, g) ==
    /\ Len(r) >= 3
    /\ Cardinality(Range(r)) = Len(r)
    /\ \A i \in 1..Len(r) : r[i] \in DOMAIN g /\ r[(i % Len(r)) + 1] \in g[r[i]]

\* symmetric difference of a set of edge sets: the edges in an odd number of them
SymDiff(F) == {e \in UNION F : Cardinality({c \in F : e \in c}) % 2 = 1}

\* linearly independent over GF(2): no non-empty subfamily sums to nothing
Independent(F) == \A G \in SUBSET F : G # {} => SymDiff(G) # {}

\* the edge sets of all simple cycles of g
Cycles(g) ==
    {C \in SUBSET GraphEdges(g) :
        /\ C # {}
        /\ \A a \in UNION C : Cardinality({e \in C : a \in e}) = 2
        /\ Reach(C, {MinOf(UNION C)}) = UNION C}

\* weight of a minimum cycle basis: greedy over the cycles by size (the cycle
\* space is a matroid), B the basis so far, left the cycles not yet decided
RECURSIVE GreedyBasis(_, _)
GreedyBasis(left, B) ==
    LET ok == {C \in left : Independent(B \cup {C})}
    IN IF ok = {} THEN 0
       ELSE LET c == CHOOSE C \in ok : \A D \in ok : Cardinality(C) <= Cardinality(D)
            IN Cardinality(c) + GreedyBasis(ok \ {c}, B \cup {c})

MinBasisWeight(g) == GreedyBasis(Cycles(g), {})

RECURSIVE SumSizes(_)
SumSizes(rs) == IF rs = <<>> THEN 0 ELSE Len(rs[1]) + SumSizes(Tail(rs))

\* C1: for a graph of circuit rank n_sssr >= 1, _sssr, whenever it returns,
\* returns exactly n_sssr rings.
C1_RingCount ==
    (s_pc = "returned" /\ RankGiven) => Len(s_out) = n_sssr

\* a return from the repair pass: the greedy pass alone did not reach n_sssr
C1_Witness ==
    /\ s_pc = "returned" /\ RankGiven
    /\ n_sssr >= 3
    /\ ~GreedyPass(s_cands, n_sssr).done
    /\ Len(s_out) = n_sssr

\* C2: every returned ring is a simple cycle of the input graph: no atom
\* occurs twice and every consecutive pair, (last, first) included, is an edge.
C2_SimpleCycles ==
    s_pc = "returned" => \A i \in 1..Len(s_out) : IsSimpleCycle(s_out[i], s_graph)

\* rings of different sizes returned for a graph with fused rings
C2_Witness ==
    /\ s_pc = "returned"
    /\ \E i, j \in 1..Len(s_out) :
          /\ Len(s_out[i]) = 3 /\ Len(s_out[j]) >= 4
          /\ Cardinality(Range(s_out[i]) \cap Range(s_out[j])) >= 2

\* C3: the returned rings are a smallest-length cycle basis: their edge sets
\* are linearly independent over GF(2) and the sum of their sizes is the
\* minimum over all cycle bases of the graph.
C3_MinimumCycleBasis ==
    (s_pc = "returned" /\ RankGiven) =>
        /\ Independent({RingEdges(s_out[i]) : i \in 1..Len(s_out)})
        /\ Cardinality({RingEdges(s_out[i]) : i \in 1..Len(s_out)}) = Len(s_out)
        /\ SumSizes(s_out) = MinBasisWeight(s_graph)

\* C5: when _sssr cannot deliver n_sssr rings it fails with
\* ImplementationError and with no other error kind, also when the candidate
\* generator gives no ring at all or fewer than needed.
C5_OnlyImplementationError ==
    s_pc \notin {"call", "bfs", "pid", "relax", "filter", "returned"} =>
        s_pc = "ImplementationError"

\* ------------------------------------------------------------------------
\* the Kekule search as the consumer drives it
\* ------------------------------------------------------------------------
InitKekule ==
    /\ rings \in SkeletonInputs
    /\ ring_keys = SetToSeq(DOMAIN rings)
    /\ \E db \in SUBSET DOMAIN rings : \E py \in SUBSET (DOMAIN rings \ db) :
          /\ Cardinality(db) + Cardinality(py) <= MaxHetero
          /\ IsNaphthalene => db \cup py = {}
          /\ double_bonded = db /\ in_double = db /\ pyroles = py
    /\ start = None /\ stack = <<>> /\ path = <<>> /\ hashed_path = {}
    /\ nether_yielded = TRUE /\ yielded = <<>> /\ k_pc = "created"
    /\ CanonIdle
    /\ SssrIdle
    /\ MolIdle

\* lines 544-565: the first pull runs the generator from its top
KekuleStart ==
    /\ k_pc = "created"
    /\ LET deg2plain == SelectSeq(ring_keys, LAMBDA n : Len(rings[n]) = 2 /\ n \notin pyroles)
           deg2 == SelectSeq(ring_keys, LAMBDA n : Len(rings[n]) = 2)
           Frames(st, b) == [i \in 1..Len(rings[st]) |-> <<<<rings[st][i], st, b, 0>>>>]
       IN IF double_bonded # {}
          THEN /\ start' = PyIter(double_bonded)[1]
               /\ stack' = <<<<<<rings[start'][1], start', 1, 0>>>>>>
               /\ UNCHANGED double_bonded
          ELSE IF deg2plain # <<>>
          THEN /\ start' = deg2plain[1]
               /\ stack' = Frames(start', 1)
               /\ UNCHANGED double_bonded
          ELSE IF deg2 # <<>>
          THEN /\ start' = deg2[1]
               /\ stack' = Frames(start', 1)
               /\ UNCHANGED double_bonded
          ELSE /\ start' = ring_keys[1]
               /\ double_bonded' = double_bonded \cup {start'}
               /\ stack' = Frames(start', 2)
    /\ path' = <<>> /\ hashed_path' = {} /\ nether_yielded' = TRUE
    /\ k_pc' = "loop"
    /\ UNCHANGED <<rings, ring_keys, pyroles, in_double, yielded, canon_vars, sssr_vars, mol_vars>>

\* one pass of "while stack:" (lines 567-671), up to the yield if it is reached
KekuleIter ==
    /\ k_pc = "loop"
    /\ stack # <<>>
    /\ IF Last(stack) = <<>>
       THEN \* stack[-1].pop() of an empty frame
            /\ k_pc' = "IndexError"
            /\ UNCHANGED <<stack, path, hashed_path, yielded>>
       ELSE LET e == Last(Last(stack))
                stk == ReplaceLast(stack, Front(Last(stack)))
                pth == Append(path, <<e[1], e[2], e[3]>>)
                hp == hashed_path \cup {e[1]}
            IN IF Len(pth) = size
               THEN /\ stack' = stk /\ path' = pth /\ hashed_path' = hp
                    /\ yielded' = Append(yielded, pth)
                    /\ k_pc' = "yielded"
               ELSE IF e[1] # start
               THEN LET g == Grow(stk, pth, hp, e[1], e[2], e[3], double_bonded) IN
                    /\ stack' = g.stack /\ path' = g.path /\ hashed_path' = g.hashed
                    /\ k_pc' = IF g.err = "none" THEN "loop" ELSE g.err
                    /\ UNCHANGED yielded
               ELSE /\ stack' = stk /\ path' = pth /\ hashed_path' = hp
                    /\ UNCHANGED <<yielded, k_pc>>
    /\ UNCHANGED <<rings, ring_keys, double_bonded, pyroles, in_double, start, nether_yielded, canon_vars, sssr_vars, mol_vars>>

\* a plausible slip: pulled again, the generator starts its search anew
KekuleResume_restart ==
    /\ k_pc = "yielded"
    /\ k_pc' = "created"
    /\ stack' = <<>> /\ path' = <<>> /\ hashed_path' = {} /\ yielded' = <<>>
    /\ UNCHANGED <<rings, ring_keys, double_bonded, pyroles, in_double, start, nether_yielded,
                   canon_vars, sssr_vars, mol_vars>>

\* the consumer pulls again: lines 574-579 after the yield
KekuleResume ==
    /\ k_pc = "yielded"
    /\ nether_yielded' = FALSE
    /\ LET d == DropFrame(stack, path, hashed_path) IN
       /\ stack' = d.stack /\ path' = d.path /\ hashed_path' = d.hashed
       /\ k_pc' = IF d.err = "none" THEN "loop" ELSE d.err
    /\ UNCHANGED <<rings, ring_keys, double_bonded, pyroles, in_double, start, yielded, canon_vars, sssr_vars, mol_vars>>

\* the loop ends on an empty stack: lines 673-674
KekuleFinish ==
    /\ k_pc = "loop"
    /\ stack = <<>>
    /\ k_pc' = IF nether_yielded THEN "InvalidAromaticRing" ELSE "done"
    /\ UNCHANGED <<rings, ring_keys, double_bonded, pyroles, in_double, start, stack, path,
                   hashed_path, nether_yielded, yielded, canon_vars, sssr_vars, mol_vars>>

NextKekule == KekuleStart \/ KekuleIter \/ KekuleResume \/ KekuleFinish

SpecKekule == InitKekule /\ [][NextKekule]_vars

\* ---- what an assignment gives to the atoms ----
SkelEdges == {{a, rings[a][i]} : <<a, i>> \in {<<a, i>> \in Atoms \X (1..3) : i <= Len(rings[a])}}

\* number of order-2 entries of the yielded path p at atom a
DoubleCount(p, a) ==
    Cardinality({i \in 1..Len(p) : p[i][3] = 2 /\ a \in {p[i][1], p[i][2]}})

\* a yielded path as a set of (unordered atom pair, order)
AsgOf(p) == {<<{p[i][1], p[i][2]}, p[i][3]>> : i \in 1..Len(p)}

YieldedSet == {AsgOf(yielded[i]) : i \in 1..Len(yielded)}

DoublesAt(f, a) == Cardinality({e \in SkelEdges : a \in e /\ f[e] = 2})

\* every assignment of order 1 or 2 to the skeleton edges in which a plain atom
\* has exactly one double bond, a pyrrole-like atom at most one and a
\* double-bonded atom none
ValidAssignments ==
    {{<<e, f[e]>> : e \in SkelEdges} :
        f \in {h \in [SkelEdges -> {1, 2}] :
                 \A a \in Atoms :
                    IF a \in in_double THEN DoublesAt(h, a) = 0
                    ELSE IF a \in pyroles THEN DoublesAt(h, a) <= 1
                    ELSE DoublesAt(h, a) = 1}}

Exhausted == k_pc \in {"done", "InvalidAromaticRing"}

\* C6: for the naphthalene skeleton (no pyrrole-like, no double-bonded atom)
\* the enumeration yields exactly 3 bond assignments, pairwise distinct.
C6_NaphthaleneThree ==
    IsNaphthalene =>
        /\ Len(yielded) <= 3
        /\ Cardinality(YieldedSet) = Len(yielded)
        /\ k_pc \notin {"InvalidAromaticRing", "IndexError", "ValueError"}
        /\ k_pc = "done" => Len(yielded) = 3

C6_Witness == IsNaphthalene /\ k_pc = "done" /\ Cardinality(YieldedSet) = 3

\* C7: in every yielded assignment every plain atom has exactly one incident
\* skeleton bond of order 2 and every pyrrole-like atom has at most one.
C7_PlainOnePyrroleAtMostOne ==
    \A i \in 1..Len(yielded) : \A a \in Atoms :
        /\ (a \notin in_double /\ a \notin pyroles) => DoubleCount(yielded[i], a) = 1
        /\ a \in pyroles => DoubleCount(yielded[i], a) <= 1

\* a finished enumeration with a pyrrole-like atom that got no double bond
\* while every plain atom got its one
C7_Witness ==
    /\ k_pc = "done"
    /\ \E a \in pyroles : \E i \in 1..Len(yielded) : DoubleCount(yielded[i], a) = 0
    /\ \E a \in Atoms \ pyroles : \E i \in 1..Len(yielded) : DoubleCount(yielded[i], a) = 1

\* C8 as stated: in every yielded assignment every atom of the double-bonded
\* class has exactly one incident skeleton bond of order 2.
C8_QuinoneOneDouble ==
    \A i \in 1..Len(yielded) : \A a \in in_double : DoubleCount(yielded[i], a) = 1

\* C8 amended: in every yielded assignment every atom of the double-bonded
\* class has no incident skeleton bond of order 2, both its ring bonds are
\* single (its double bond is the exocyclic one).
C8_QuinoneNoRingDouble ==
    \A i \in 1..Len(yielded) : \A a \in in_double : DoubleCount(yielded[i], a) = 0

C8_Witness ==
    /\ k_pc = "done"
    /\ in_double # {}
    /\ \E a \in Atoms : Len(rings[a]) = 3
    /\ Len(yielded) >= 1

\* C9: for a skeleton without double-bonded atoms the set of yielded
\* assignments equals the set of all assignments in which every plain atom has
\* exactly one order-2 bond and every pyrrole-like atom at most one.
C9_EnumerationComplete ==
    (Exhausted /\ in_double = {}) => YieldedSet = ValidAssignments

\* C10: the no-Kekule-form error is raised exactly when no valid assignment
\* exists, and only on an exhausted stack; once something was yielded the
\* sequence ends without raising.
C10_RaiseIffNoAssignment ==
    /\ k_pc = "InvalidAromaticRing" =>
          /\ stack = <<>>
          /\ yielded = <<>>
          /\ ValidAssignments = {}
    /\ k_pc = "done" =>
          /\ stack = <<>>
          /\ yielded # <<>>
          /\ ValidAssignments # {}

\* C4: __canonic_ring gives the same tuple for every rotation and reflection
\* of a ring of at least 3 distinct atoms, the result starts at the ring's
\* minimum atom id, and canonicalizing the result again returns it unchanged.
C4_CanonicalForm ==
    /\ c_pc \in {"canonic", "again"} =>
          /\ c_vout = c_out
          /\ c_out[1] = MinOf(Range(c_ring))
          /\ Len(c_out) = Len(c_ring)
          /\ Range(c_out) = Range(c_ring)
    /\ c_pc = "again" => c_again = c_out

\* a reflected and rotated reading of a ring whose minimum is in the middle
C4_Witness ==
    /\ c_pc = "again"
    /\ Len(c_ring) >= 4
    /\ c_variant # c_ring
    /\ c_variant[1] # c_ring[1]
    /\ c_variant # Rotate(c_ring)
    /\ IndexOf(c_variant, MinOf(Range(c_ring))) \notin {1, Len(c_ring)}

\* ========================================================================
\* Aromatize on a molecule
\* ========================================================================
\* A molecule is a record of per-atom sequences (atoms are 1..n, the order
\* in which the container holds them) and of the bonds: bonds[n] is the dict
\* neighbour -> order of atom n, in the order the neighbours were bonded;
\* sssr is the value of the cached property of that name.
MAtoms(m) == 1..Len(m.an)
AtomSeq(m) == [i \in 1..Len(m.an) |-> i]

\* bonds[n], the neighbours of n
Neighbors(m, n) == DKeySeq(m.bonds[n])

\* bonds[n][x].order
bond_order(m, n, x) == DGet(m.bonds[n], x)

\* bonds[n][x]._Bond__order = o: the bond object is shared by both ends
set_order(m, n, x, o) ==
    [m EXCEPT !.bonds[n] = DSet(@, x, o), !.bonds[x] = DSet(@, n, o)]

\* the neighbours of n over a bond of the given order, in dict order
BondedBy(m, n, o) ==
    LET d == SelectSeq(m.bonds[n], LAMBDA e : e[2] = o)
    IN [i \in 1..Len(d) |-> d[i][1]]

\* ---- the container's part (Graph, MoleculeContainer) ----
\* Graph.not_special_connectivity: the neighbours over bonds other than order 8
not_special_connectivity(m) ==
    [n \in MAtoms(m) |-> {e[1] : e \in {m.bonds[n][i] : i \in 1..Len(m.bonds[n])} \ (MAtoms(m) \X {8})}]

\* Graph.rings_count: edges - atoms + connected components
rings_count(m) == CircuitRank(not_special_connectivity(m))

\* MoleculeContainer._calc_hybridization: 4 with an aromatic bond, 3 with a
\* triple bond or two double bonds, 2 with one double bond, else 1
calc_hybridization(m, n) ==
    IF BondedBy(m, n, 4) # <<>> THEN 4
    ELSE IF BondedBy(m, n, 3) # <<>> \/ Len(BondedBy(m, n, 2)) > 1 THEN 3
    ELSE IF BondedBy(m, n, 2) # <<>> THEN 2
    ELSE 1

RECURSIVE SumOrders(_)
SumOrders(d) == IF d = <<>> THEN 0 ELSE (IF d[1][2] = 8 THEN 0 ELSE d[1][2]) + SumOrders(Tail(d))

\* MoleculeContainer._calc_implicit: the hydrogens that fill the valence of
\* the element; None for an atom with an aromatic bond or without a valence
\* that fits
calc_implicit(m, n) ==
    LET an == m.an[n]
        c == m.charge[n]
        v == IF an = 6 THEN 4 - (IF c < 0 THEN -c ELSE c)
             ELSE IF an \in {7, 15} THEN 3 + c
             ELSE IF an \in {8, 16} THEN 2 + c
             ELSE IF an = 5 THEN 3 - c
             ELSE -1
        h == v - (IF m.radical[n] THEN 1 ELSE 0) - SumOrders(m.bonds[n])
    IN IF BondedBy(m, n, 4) # <<>> \/ an \notin {5, 6, 7, 8, 15, 16} \/ h < 0 THEN None ELSE h

\* ---- SSSR._sssr and SSSR.sssr as one computation ----
RECURSIVE PidRounds(_, _)
PidRounds(st, todo) ==
    Eager(st,
    IF todo = <<>> THEN st
    ELSE LET r == PidRound([p1 |-> st.p1, p2 |-> st.p2, nd |-> <<>>], st.dist, todo[1],
                           DKeySeq(st.p1), 1, Len(st.p1))
         IN PidRounds([p1 |-> r.p1, p2 |-> r.p2, dist |-> r.nd], Tail(todo)))

\* __make_pid, lines 151-179, on the tables the loop of lines 133-143 filled
PidFrom(st) == PidRounds(st, DKeySeq(st.p1))

\* __make_pid(paths)
make_pid(paths) ==
    PidFrom(PidChains([p1 |-> <<>>, p2 |-> <<>>, dist |-> <<>>], SortByLen(paths, 0),
                      1, Len(paths)))

\* _sssr, lines 60-61
SssrPid(pid, n) == rings_filter(c_set(pid.p1, pid.p2, pid.dist), n)

\* _sssr, lines 59-61, on the skinned graph
SssrSkinned(b, n) ==
    IF DOMAIN b = {} THEN [pc |-> "KeyError", out |-> <<>>]
    ELSE SssrPid(make_pid(bfs(b)), n)

\* _sssr(bonds, n_sssr): what it returns or raises
sssr_of(bonds, n) == SssrSkinned(skin_graph(bonds), n)

\* the property sssr of the molecule, lines 41-48; the molecule caches what it
\* gave as m.sssr
SssrCounted(m, count) ==
    IF count # 0 THEN sssr_of(not_special_connectivity(m), count)
    ELSE [pc |-> "returned", out |-> <<>>]

sssr(m) == SssrCounted(m, rings_count(m))

\* ------------------------------------------------------------------------
\* Aromatize.__prepare_rings
\* ------------------------------------------------------------------------
\* lines 312-325: the dict atom -> neighbours over bonds of the given order
CollectBonds(m, o) ==
    LET ks == SelectSeq(AtomSeq(m), LAMBDA n : BondedBy(m, n, o) # <<>>)
    IN [i \in 1..Len(ks) |-> <<ks[i], BondedBy(m, ks[i], o)>>]

\* the pairs (n, m) of a ring as lines 335 and 346 take them
RingPairs(r) == <<<<r[1], r[Len(r)]>>>> \o [i \in 1..Len(r) - 1 |-> <<r[i], r[i + 1]>>]

\* x in d[k] for a dict d of lists
InList(d, k, x) == DHas(d, k) /\ x \in Range(DGet(d, k))

\* lines 336-345 and 347-355 for one pair; st holds rings, double_bonded, copy_rings
RepairPair(st, n, x) ==
    IF ~InList(st.rings, x, n)  \* fix invalid structures: c1ccc-cc1
    THEN LET db == IF InList(st.db, n, x) /\ DHas(st.db, x)
                   THEN DSet(DSet(st.db, n, RemoveFirst(DGet(st.db, n), x)),
                             x, RemoveFirst(DGet(st.db, x), n))
                   ELSE st.db
             r1 == DSet(st.rings, x, Append(DGet(st.rings, x), n))
         IN [st EXCEPT !.db = db, !.rings = DSet(r1, n, Append(DGet(r1, n), x))]
    ELSE IF InList(st.copy, n, x)
    THEN [st EXCEPT !.copy = DSet(DSet(@, n, RemoveFirst(DGet(@, n), x)),
                                  x, RemoveFirst(DGet(st.copy, x), n))]
    ELSE st

RECURSIVE RepairPairs(_, _)
RepairPairs(st, ps) ==
    Eager(st,
    IF ps = <<>> THEN st
    ELSE RepairPairs(RepairPair(st, ps[1][1], ps[1][2]), Tail(ps)))

\* lines 333-355
RepairRings(st, rs) ==
    RepairPairs(st, Concat([i \in 1..Len(rs) |->
                    IF Range(rs[i]) \subseteq DKeys(st.rings) THEN RingPairs(rs[i]) ELSE <<>>]))

\* line 357
DegreeOk(ringsd) == \A i \in 1..Len(ringsd) : Len(ringsd[i][2]) \in {2, 3}

\* lines 366-370 for one aromatic bond that no ring holds
CutBond(st, n, x) ==
    IF x \notin st.seen
    THEN LET r1 == DSet(st.rings, n, RemoveFirst(DGet(st.rings, n), x))
         IN [st EXCEPT !.rings = DSet(r1, x, RemoveFirst(DGet(r1, x), n)),
                       !.mol = set_order(@, n, x, 1)]
    ELSE st

RECURSIVE CutBonds(_, _, _)
CutBonds(st, n, xs) ==
    Eager(st, IF xs = <<>> THEN st ELSE CutBonds(CutBond(st, n, xs[1]), n, Tail(xs)))

\* lines 362-370: fix invalid smiles, c1ccccc1c2ccccc2 instead of c1ccccc1-c2ccccc2
RECURSIVE CutLinks(_, _)
CutLinks(st, copy) ==
    Eager(st,
    IF copy = <<>> THEN st
    ELSE IF copy[1][2] # <<>>
    THEN CutLinks(CutBonds([st EXCEPT !.seen = @ \cup {copy[1][1]}], copy[1][1], copy[1][2]),
                  Tail(copy))
    ELSE CutLinks(st, Tail(copy)))

\* lines 376-381: an atom with a double bond out of the skeleton
QuinoneOk(m, n) ==
    IF m.an[n] = 7 THEN m.charge[n] = 1
    ELSE m.an[n] \in {6, 15, 16, 33, 34, 52} /\ m.charge[n] = 0

\* lines 383-503, the decision table for one skeleton atom: the class the
\* atom gets ("double_bonded", "pyroles", "plain") or "raise"; quinone tells
\* whether the atom is in double_bonded already
Classify(m, n, quinone) ==
    LET an == m.an[n]
        ac == m.charge[n]
        ab == Len(m.bonds[n])
        rad == m.radical[n]
        ah == m.hydrogens[n]
    IN IF an = 6  \* carbon
       THEN IF ac = 0
            THEN IF ab \notin {2, 3} THEN "raise" ELSE "plain"
            ELSE IF ac \in {-1, 1}
            THEN IF rad
                 THEN IF ab = 2 THEN "double_bonded" ELSE "raise"
                 ELSE IF ab = 3 THEN "double_bonded"
                 ELSE IF ab = 2 THEN "pyroles"  \* benzene an[cat]ion or pyrole
                 ELSE "raise"
            ELSE "raise"
       ELSE IF an \in {7, 15, 33}
       THEN IF ac = 0  \* pyrole or pyridine. include radical pyrole
            THEN IF rad
                 THEN IF ab # 2 THEN "raise" ELSE "double_bonded"
                 ELSE IF ab = 3
                 THEN IF an = 7 THEN "double_bonded" ELSE "pyroles"
                 ELSE IF ab = 2
                 THEN IF ah = None THEN "pyroles"
                      ELSE IF ah = 1 THEN "double_bonded"
                      ELSE IF ah # 0 THEN "raise"
                      ELSE "plain"
                 ELSE IF ab # 4 \/ an \notin {15, 33} THEN "raise"
                 ELSE "plain"
            ELSE IF ac = -1  \* pyrole only
            THEN IF ab # 2 \/ rad THEN "raise" ELSE "double_bonded"
            ELSE IF ac # 1 THEN "raise"
            ELSE IF rad
            THEN IF ab # 2 THEN "raise" ELSE "plain"
            ELSE IF ab = 2 THEN "pyroles"  \* pyrole cation or protonated pyridine
            ELSE IF ab # 3 THEN "raise"
            ELSE "plain"
       ELSE IF an = 8  \* furan
       THEN IF ab = 2
            THEN IF ac = 0
                 THEN IF rad THEN "raise" ELSE "double_bonded"
                 ELSE IF ac = 1
                 THEN IF rad THEN "double_bonded" ELSE "plain"  \* pyrylium
                 ELSE "raise"
            ELSE "raise"
       ELSE IF an \in {16, 34, 52}  \* thiophene
       THEN IF quinone THEN "plain"  \* sulphoxyde or sulphone
            ELSE IF ab = 2
            THEN IF rad /\ ac # 1 THEN "raise"
                 ELSE IF ac = 0 THEN "double_bonded"
                 ELSE IF ac # 1 THEN "raise"
                 ELSE IF rad THEN "double_bonded"
                 ELSE "plain"
            ELSE IF ab = 3 /\ ac = 1 /\ ~rad THEN "double_bonded"
            ELSE "raise"
       ELSE IF an = 5  \* boron
       THEN IF ac = 0
            THEN IF ab = 2
                 THEN IF rad THEN "double_bonded"
                      ELSE IF ah = None THEN "pyroles"
                      ELSE IF ah = 1 THEN "double_bonded"
                      ELSE IF ah # 0 THEN "raise"
                      ELSE "plain"
                 ELSE IF ~rad THEN "double_bonded"
                 ELSE "raise"
            ELSE IF ac = 1
            THEN IF ab = 2 /\ ~rad THEN "double_bonded" ELSE "raise"
            ELSE IF ac = -1
            THEN IF ab = 2
                 THEN IF ~rad THEN "pyroles" ELSE "plain"  \* anion-radical is benzene like
                 ELSE IF rad THEN "double_bonded"
                 ELSE "pyroles"
            ELSE "raise"
       ELSE "raise"

NoSkeleton == [rings |-> <<>>, pyroles |-> {}, double_bonded |-> {}]

\* __prepare_rings raises InvalidAromaticRing at the given line
PrepareRaise(line, ml) ==
    [pc |-> "InvalidAromaticRing", line |-> line, mol |-> ml, skel |-> NoSkeleton]

\* lines 383-504, class being the class of every skeleton atom; line 390
\* stands for every raise of the classification (lines 390-503)
PrepareClassified(st, quinones, class) ==
    IF \E n \in DKeys(st.rings) : class[n] = "raise"
    THEN PrepareRaise(390, st.mol)
    ELSE [pc |-> "returned", line |-> 504, mol |-> st.mol,
          skel |-> [rings |-> st.rings,
                    pyroles |-> {n \in DKeys(st.rings) : class[n] = "pyroles"},
                    double_bonded |-> quinones \cup
                        {n \in DKeys(st.rings) : class[n] = "double_bonded"}]]

\* lines 372-381, quinones being the skeleton atoms left in double_bonded
PrepareQuinones(m, st, quinones) ==
    IF \E n \in quinones : Len(DGet(st.rings, n)) # 2
    THEN PrepareRaise(375, st.mol)
    ELSE IF \E n \in quinones : ~QuinoneOk(m, n)
    THEN PrepareRaise(IF m.an[SelectSeq(PyIter(quinones), LAMBDA n : ~QuinoneOk(m, n))[1]] = 7
                      THEN 379 ELSE 381, st.mol)
    ELSE PrepareClassified(st, quinones,
                           [n \in DKeys(st.rings) |-> Classify(m, n, n \in quinones)])

\* lines 361-372, after the links that are in no ring were cut
PrepareCut(m, db, st) ==
    PrepareQuinones(m, st, {db[i][1] : i \in {j \in 1..Len(db) :
                                db[j][2] # <<>> /\ DHas(st.rings, db[j][1])}})

\* lines 357-370, after the ring bonds were repaired
PrepareRepaired(m, st) ==
    IF ~DegreeOk(st.rings)
    THEN PrepareRaise(358, m)
    ELSE PrepareCut(m, st.db, CutLinks([rings |-> st.rings, seen |-> {}, mol |-> m], st.copy))

\* lines 333-355, rs being what self.sssr gave
PrepareOnRings(m, rings0, rs) ==
    IF rs.pc # "returned"
    THEN [pc |-> rs.pc, line |-> 333, mol |-> m, skel |-> NoSkeleton]
    ELSE PrepareRepaired(m, RepairRings([rings |-> rings0, db |-> CollectBonds(m, 2),
                                         copy |-> rings0], rs.out))

\* lines 327-332, rings0 being the dict of the aromatic bonds
PrepareCollected(m, rings0) ==
    IF rings0 = <<>>
    THEN [pc |-> "returned", line |-> 328, mol |-> m, skel |-> NoSkeleton]
    ELSE IF \E n \in DKeys(rings0) : BondedBy(m, n, 3) # <<>>
    THEN PrepareRaise(330, m)
    ELSE PrepareOnRings(m, rings0, m.sssr)

\* __prepare_rings(self): the outcome (pc), the line that raised, the
\* molecule as the call leaves it, and the returned triple
prepare_rings(m) == PrepareCollected(m, CollectBonds(m, 4))

\* ------------------------------------------------------------------------
\* Aromatize.__kekule_patch and the components of __kekule_full
\* ------------------------------------------------------------------------
RECURSIVE PatchBonds(_, _)
PatchBonds(m, patch) ==
    Eager(m,
    IF patch = <<>> THEN m
    ELSE PatchBonds(set_order(m, patch[1][1], patch[1][2], patch[1][3]), Tail(patch)))

\* a plausible slip: the orders of the patch are never written to the bonds
kekule_patch_unwritten(m, patch) == m

\* lines 506-515: the orders, then hybridization and implicit hydrogens of
\* the atoms of the patch
kekule_patch(m, patch) ==
    LET m1 == PatchBonds(m, patch)
        touched == {patch[i][1] : i \in 1..Len(patch)} \cup {patch[i][2] : i \in 1..Len(patch)}
        m2 == [m1 EXCEPT !.hyb = [n \in MAtoms(m) |->
                                    IF n \in touched THEN calc_hybridization(m1, n) ELSE @[n]]]
    IN [m2 EXCEPT !.hydrogens = [n \in MAtoms(m) |->
                                    IF n \in touched THEN calc_implicit(m2, n) ELSE @[n]]]

\* lines 525-531: the keys of one component in the order the dict gets them
RECURSIVE BfsKeys(_, _, _)
BfsKeys(ringsd, queue, keys) ==
    IF queue = <<>> THEN keys
    ELSE LET fresh == SelectSeq(DGet(ringsd, queue[1]), LAMBDA n : n \notin Range(keys))
         IN BfsKeys(ringsd, Tail(queue) \o fresh, keys \o fresh)

\* lines 520-534: atoms.pop() takes the first slot of a table of the given size
RECURSIVE SplitComponents(_, _, _)
SplitComponents(ringsd, atoms, slots) ==
    IF atoms = {} THEN <<>>
    ELSE LET st == PySlots(atoms, slots)[1]
             keys == BfsKeys(ringsd, <<st>>, <<st>>)
         IN <<keys>> \o SplitComponents(ringsd, atoms \ Range(keys), slots)

\* set(rings) of a dict is sized for twice its keys
components_of(ringsd) ==
    SplitComponents(ringsd, DKeys(ringsd),
                    IF Len(ringsd) <= 4 THEN 8 ELSE IF Len(ringsd) <= 7 THEN 16 ELSE 32)

\* ------------------------------------------------------------------------
\* Aromatize.__bad_rings_rules, __freaks and the pattern matcher
\* ------------------------------------------------------------------------
\* A query atom: the elements it accepts ({} for any), its charge, and the
\* accepted neighbour counts, hybridizations, ring sizes and heteroatom
\* counts ({} where the rule does not name them); query atoms are not radicals
QA(el, charge, nb, hyb, rs, het) ==
    [el |-> el, charge |-> charge, nb |-> nb, hyb |-> hyb, rs |-> rs, het |-> het]

AnyAtom == QA({}, 0, {}, {}, {}, {})
El(e) == QA({e}, 0, {}, {}, {}, {})
ElN(e, nb) == QA({e}, 0, nb, {}, {}, {})

Sandwich == {22, 23, 24, 25, 26, 27, 28, 40, 41, 42, 44, 72, 74, 75, 77}
Coinage == {29, 47, 79, 46}
CpCarbon == QA({6}, 0, {}, {}, {5}, {})
Carbene == QA({6}, 0, {3}, {}, {5}, {})
AzoleN == QA({7}, 0, {3}, {}, {5}, {0})

\* lines 693-905: (query atoms, query bonds, atom fixes, bond fixes)
bad_rings_rules ==
    << \* Aromatic N-Oxide
       [atoms |-> <<QA({7}, 0, {3}, {4}, {}, {}), ElN(8, {1})>>,
        bonds |-> {<<1, 2, {2}>>},
        af |-> <<<<1, "charge", 1>>, <<2, "charge", -1>>, <<2, "hyb", 1>>>>,
        bf |-> <<<<1, 2, 1>>>>],
       \* Aromatic N-Nitride
       [atoms |-> <<QA({7}, 0, {3}, {4}, {}, {}), QA({7}, 0, {1, 2}, {2}, {}, {})>>,
        bonds |-> {<<1, 2, {2}>>},
        af |-> <<<<1, "charge", 1>>, <<2, "charge", -1>>, <<2, "hyb", 1>>>>,
        bf |-> <<<<1, 2, 1>>>>],
       \* : [S+] : with [O-]
       [atoms |-> <<QA({16}, 1, {3}, {4}, {}, {}), QA({8}, -1, {1}, {}, {}, {})>>,
        bonds |-> {<<1, 2, {1}>>},
        af |-> <<<<1, "charge", 0>>, <<2, "charge", 0>>, <<2, "hyb", 2>>>>,
        bf |-> <<<<1, 2, 2>>>>],
       \* [O-]-N:C:C:[N+]=O
       [atoms |-> <<QA({8}, -1, {1}, {}, {}, {}), ElN(7, {3}), El(6), El(6),
                    QA({7}, 1, {3}, {}, {}, {}), ElN(8, {1})>>,
        bonds |-> {<<1, 2, {1}>>, <<2, 3, {4}>>, <<3, 4, {4}>>, <<4, 5, {4}>>, <<5, 6, {2}>>},
        af |-> <<<<2, "charge", 1>>, <<6, "charge", -1>>>>,
        bf |-> <<<<5, 6, 1>>>>],
       \* N : A : N - ? with C # C in the ring
       [atoms |-> <<ElN(7, {2}), ElN(6, {2}), ElN(6, {2}), ElN(7, {2, 3}),
                    QA({6, 7}, 0, {}, {}, {}, {})>>,
        bonds |-> {<<1, 2, {4}>>, <<2, 3, {3}>>, <<3, 4, {4}>>, <<4, 5, {4}>>, <<1, 5, {4}>>},
        af |-> <<>>,
        bf |-> <<<<2, 3, 4>>>>],
       \* C:[N+]:[C-] with =O
       [atoms |-> <<QA({7}, 1, {3}, {}, {}, {}), ElN(8, {1}), QA({6}, -1, {2, 3}, {}, {}, {}),
                    ElN(6, {2, 3})>>,
        bonds |-> {<<1, 2, {2}>>, <<1, 3, {4}>>, <<1, 4, {4}>>},
        af |-> <<<<2, "charge", -1>>, <<2, "hyb", 1>>, <<3, "charge", 0>>>>,
        bf |-> <<<<1, 2, 1>>>>],
       \* O=[N+] : C / O : N : C
       [atoms |-> <<QA({7}, 1, {3}, {}, {}, {}), ElN(8, {1}), ElN(8, {2}), ElN(6, {2, 3}),
                    ElN(6, {2, 3}), ElN(7, {2, 3})>>,
        bonds |-> {<<1, 2, {2}>>, <<1, 3, {4}>>, <<1, 4, {4}>>, <<3, 6, {4}>>, <<4, 5, {4}>>,
                   <<5, 6, {4}>>},
        af |-> <<<<1, "hyb", 2>>, <<3, "hyb", 1>>, <<4, "hyb", 2>>, <<5, "hyb", 2>>,
                 <<6, "hyb", 1>>>>,
        bf |-> <<<<1, 3, 1>>, <<1, 4, 1>>, <<3, 6, 1>>, <<4, 5, 2>>, <<5, 6, 1>>>>],
       \* imidazolium, bis Pd complex
       [atoms |-> <<El(46), Carbene, AzoleN, AzoleN, Carbene, AzoleN, AzoleN>>,
        bonds |-> {<<1, 2, {1}>>, <<2, 3, {4}>>, <<2, 4, {4}>>, <<1, 5, {1}>>, <<5, 6, {4}>>,
                   <<5, 7, {4}>>},
        af |-> <<<<1, "charge", -2>>, <<3, "charge", 1>>, <<6, "charge", 1>>>>,
        bf |-> <<>>],
       \* imidazolium
       [atoms |-> <<QA(Coinage, 0, {}, {}, {}, {}), Carbene, AzoleN, AzoleN>>,
        bonds |-> {<<1, 2, {1}>>, <<2, 3, {4}>>, <<2, 4, {4}>>},
        af |-> <<<<1, "charge", -1>>, <<3, "charge", 1>>>>,
        bf |-> <<>>],
       \* ferrocene uncharged
       [atoms |-> <<QA(Sandwich, 0, {}, {}, {}, {}), CpCarbon, CpCarbon, CpCarbon, CpCarbon,
                    CpCarbon, CpCarbon, CpCarbon, CpCarbon, CpCarbon, CpCarbon>>,
        bonds |-> {<<1, 2, {8}>>, <<1, 7, {8}>>, <<2, 3, {4}>>, <<3, 4, {4}>>, <<4, 5, {4}>>,
                   <<5, 6, {4}>>, <<2, 6, {4}>>, <<7, 8, {4}>>, <<8, 9, {4}>>, <<9, 10, {4}>>,
                   <<10, 11, {4}>>, <<7, 11, {4}>>},
        af |-> <<<<1, "charge", 2>>, <<2, "charge", -1>>, <<7, "charge", -1>>>>,
        bf |-> <<>>],
       \* half ferrocene uncharged
       [atoms |-> <<QA(Sandwich, 0, {}, {}, {}, {}), CpCarbon, CpCarbon, CpCarbon, CpCarbon,
                    CpCarbon>>,
        bonds |-> {<<1, 2, {8}>>, <<2, 3, {4}>>, <<3, 4, {4}>>, <<4, 5, {4}>>, <<5, 6, {4}>>,
                   <<2, 6, {4}>>},
        af |-> <<<<1, "charge", 1>>, <<2, "charge", -1>>>>,
        bf |-> <<>>] >>

\* lines 677-691: the five-ring N1-A(=,:)A-A:A1
freaks ==
    << [atoms |-> <<ElN(7, {2}), AnyAtom, AnyAtom, AnyAtom, AnyAtom>>,
        bonds |-> {<<1, 2, {1}>>, <<2, 3, {2, 4}>>, <<3, 4, {1}>>, <<4, 5, {4}>>, <<1, 5, {1}>>}] >>

\* the number of neighbours of a that are neither carbon nor hydrogen
Heteroatoms(m, a) == Cardinality({x \in Range(Neighbors(m, a)) : m.an[x] \notin {1, 6}})

\* the sizes of the smallest rings that hold a
SizesIn(rs, a) == {Len(rs[i]) : i \in {j \in 1..Len(rs) : a \in Range(rs[j])}}

RingSizes(m, a) == SizesIn(m.sssr.out, a)

\* the atom a of the molecule answers the query atom q
AtomFits(m, q, a) ==
    /\ q.el = {} \/ m.an[a] \in q.el
    /\ m.charge[a] = q.charge
    /\ ~m.radical[a]
    /\ q.nb = {} \/ Len(m.bonds[a]) \in q.nb
    /\ q.hyb = {} \/ m.hyb[a] \in q.hyb
    /\ q.het = {} \/ Heteroatoms(m, a) \in q.het
    /\ q.rs = {} \/ RingSizes(m, a) \cap q.rs # {}

\* the bonds of the query between atom i and the atoms before it are bonds
\* of the molecule with an accepted order, when i is mapped to a
BondsFit(m, qbonds, p, i, a) ==
    \A b \in qbonds :
        LET j == IF b[1] = i THEN b[2] ELSE b[1]
        IN (i \in {b[1], b[2]} /\ j < i) =>
               (DHas(m.bonds[a], p[j]) /\ bond_order(m, a, p[j]) \in b[3])

\* the mappings of the first i query atoms into the atoms of scope
RECURSIVE PartialMaps(_, _, _, _)
PartialMaps(m, q, scope, i) ==
    IF i = 0 THEN {<<>>}
    ELSE LET before == PartialMaps(m, q, scope, i - 1)
         IN UNION {{Append(p, a) : a \in {x \in scope \ Range(p) :
                        AtomFits(m, q.atoms[i], x) /\ BondsFit(m, q.bonds, p, i, x)}} :
                   p \in before}

\* p comes before r in the order the matcher gives its mappings
LexLess(p, r) ==
    \E k \in 1..Len(p) : p[k] < r[k] /\ \A j \in 1..k - 1 : p[j] = r[j]

RECURSIVE LexSort(_)
LexSort(S) ==
    IF S = {} THEN <<>>
    ELSE LET p == CHOOSE x \in S : \A y \in S \ {x} : LexLess(x, y)
         IN <<p>> \o LexSort(S \ {p})

\* q.get_mapping(self, automorphism_filter=False), within the atoms of scope
get_mapping(m, q, scope) == LexSort(PartialMaps(m, q, scope, Len(q.atoms)))

\* ------------------------------------------------------------------------
\* Aromatize.__fix_rings
\* ------------------------------------------------------------------------
\* lines 294-297: getattr(self, key)[n] = value
RECURSIVE FixAtoms(_, _, _)
FixAtoms(m, af, p) ==
    IF af = <<>> THEN m
    ELSE LET n == p[af[1][1]]
         IN FixAtoms(IF af[1][2] = "charge" THEN [m EXCEPT !.charge[n] = af[1][3]]
                     ELSE [m EXCEPT !.hyb[n] = af[1][3]], Tail(af), p)

\* lines 298-301
RECURSIVE FixBonds(_, _, _)
FixBonds(m, bf, p) ==
    IF bf = <<>> THEN m
    ELSE FixBonds(set_order(m, p[bf[1][1]], p[bf[1][2]], bf[1][3]), Tail(bf), p)

\* lines 288-301 for the mappings of one rule
RECURSIVE FixMappings(_, _, _)
FixMappings(st, rule, ps) ==
    Eager(st,
    IF ps = <<>> THEN st
    ELSE IF Range(ps[1]) \cap st.seen # {}  \* prevent double patching of atoms
    THEN FixMappings(st, rule, Tail(ps))
    ELSE FixMappings([seen |-> st.seen \cup Range(ps[1]),
                      mol |-> FixBonds(FixAtoms(st.mol, rule.af, ps[1]), rule.bf, ps[1])],
                     rule, Tail(ps)))

RECURSIVE FixRules(_, _)
FixRules(st, rules) ==
    Eager(st,
    IF rules = <<>> THEN st
    ELSE FixRules(FixMappings(st, rules[1], get_mapping(st.mol, rules[1], MAtoms(st.mol))),
                  Tail(rules)))

\* __fix_rings(self): the molecule it leaves
fix_rings(m) == FixRules([seen |-> {}, mol |-> m], bad_rings_rules).mol

\* ------------------------------------------------------------------------
\* Aromatize.thiele
\* ------------------------------------------------------------------------
\* rings[n].add(x) on the defaultdict(set) of line 50
DAddS(d, n, x) ==
    IF DHas(d, n) THEN DSet(d, n, DGet(d, n) \cup {x}) ELSE Append(d, <<n, {x}>>)

RECURSIVE AddPairs(_, _)
AddPairs(d, ps) ==
    IF ps = <<>> THEN d
    ELSE AddPairs(DAddS(DAddS(d, ps[1][1], ps[1][2]), ps[1][2], ps[1][1]), Tail(ps))

\* lines 75-79, 106-110, 124-128: the bonds of the ring join the skeleton
AddRing(d, ring) == AddPairs(d, RingPairs(ring))

\* the first element of s that is in S, or None
FirstIn(s, S) ==
    LET t == SelectSeq(s, LAMBDA x : x \in S) IN IF t = <<>> THEN None ELSE t[1]

\* fixed_charges[x] += d, from the charge of x when x is not there yet
Bump(m, fixed, x, d) ==
    DSet(fixed, x, (IF DHas(fixed, x) THEN DGet(fixed, x) ELSE m.charge[x]) + d)

\* lines 92-95: the carbene carbon next to n of an imidazolium complex
ImidazoliumCarbon(m, n) ==
    FirstIn(Neighbors(m, n),
            {c \in MAtoms(m) :
                /\ m.an[c] = 6
                /\ Len(m.bonds[c]) = 3
                /\ \A x \in Range(Neighbors(m, c)) \ {n} :
                      \/ m.an[x] \in Coinage /\ m.charge[x] < 0
                      \/ m.an[x] = 7 /\ m.charge[x] = 1})

\* lines 97-104
RECURSIVE ImidazoliumFix(_, _, _)
ImidazoliumFix(m, fixed, xs) ==
    IF xs = <<>> THEN fixed
    ELSE ImidazoliumFix(m, IF m.charge[xs[1]] < 0 THEN Bump(m, fixed, xs[1], 1)
                           ELSE DSet(fixed, xs[1], 0), Tail(xs))

\* lines 114-116: the metal n is bound to
SandwichMetal(m, n) ==
    FirstIn(Neighbors(m, n),
            {x \in MAtoms(m) : /\ DHas(m.bonds[n], x) /\ bond_order(m, n, x) = 8
                               /\ m.charge[x] > 0 /\ m.an[x] \in Sandwich})

Sp2Elements == {5, 6, 7, 8, 15, 16}
PyrroleElements == {5, 7, 8, 15, 16, 34}

\* lines 80-128: a ring with one atom n that is not sp2
PyrroleLike(m, st, ring, n, ft, fmo) ==
    LET lr == Len(ring)
        an == m.an[n]
        joined == [st EXCEPT !.pyroles = @ \cup {n}, !.rings = AddRing(@, ring)]
    IN IF lr = 7 /\ an # 5  \* skip electron-rich 7-membered rings
       THEN st
       ELSE IF an \in PyrroleElements /\ m.charge[n] = 0
       THEN IF ft /\ lr = 6 /\ an = 7 /\ Len(m.bonds[n]) = 2
            THEN [joined EXCEPT !.donors = Append(@, n)]
            ELSE IF fmo /\ lr = 5 /\ an = 7 /\ ImidazoliumCarbon(m, n) # None
            THEN [joined EXCEPT !.fixed = ImidazoliumFix(m, @,
                                              Neighbors(m, ImidazoliumCarbon(m, n)))]
            ELSE joined
       ELSE IF an = 6 /\ lr = 5 /\ m.charge[n] = -1  \* ferrocene, etc.
       THEN IF fmo /\ SandwichMetal(m, n) # None
            THEN [joined EXCEPT !.fixed = Bump(m, DSet(@, n, 0), SandwichMetal(m, n), -1)]
            ELSE joined
       ELSE st

\* lines 58-137 for one ring of self.sssr
ThieleRing(m, st, ring, ft, fmo) ==
    LET lr == Len(ring)
        sp2 == Cardinality({i \in 1..lr : m.hyb[ring[i]] = 2 /\ m.an[ring[i]] \in Sp2Elements})
        neutralN == {n \in MAtoms(m) : m.an[n] = 7 /\ m.charge[n] = 0}
    IN IF ~(3 < lr /\ lr < 8)  \* skip 3-membered and big rings
       THEN st
       ELSE IF sp2 = lr  \* benzene like
       THEN IF lr = 4
            THEN [st EXCEPT !.tetracycles = Append(@, ring)]
            ELSE [st EXCEPT !.acceptors = IF ft /\ lr % 2 = 1 /\ FirstIn(ring, neutralN) # None
                                          THEN @ \cup {FirstIn(ring, neutralN)} ELSE @,
                            !.rings = AddRing(@, ring)]
       ELSE IF 4 < lr /\ lr = sp2 + 1  \* pyroles, furanes, etc
       THEN IF FirstIn(ring, {n \in MAtoms(m) : m.hyb[n] = 1}) = None
            THEN st  \* exotic, just skip
            ELSE PyrroleLike(m, st, ring, FirstIn(ring, {n \in MAtoms(m) : m.hyb[n] = 1}),
                             ft, fmo)
       ELSE IF lr = 5 /\ Cardinality(Range(ring) \cap neutralN) > 1  \* like N1C=Cn2cccc12
       THEN [st EXCEPT !.freaks = Append(@, ring)]
       ELSE st

RECURSIVE ThieleRings(_, _, _, _, _)
ThieleRings(m, st, rs, ft, fmo) ==
    Eager(st,
    IF rs = <<>> THEN st
    ELSE ThieleRings(m, ThieleRing(m, st, rs[1], ft, fmo), Tail(rs), ft, fmo))

\* lines 146-167: the walk from a donor along bonds of alternating order;
\* a frame of stk is (last, current, depth, order)
RECURSIVE TautomerWalk(_, _, _, _, _, _, _)
TautomerWalk(m, ringsd, dbl, acceptors, stk, pth, seen) ==
    IF stk = <<>> THEN [found |-> FALSE, at |-> None, path |-> pth]
    ELSE LET e == Last(stk)
             cut == Len(pth) > e[3]
             seen1 == IF cut THEN seen \ {pth[i][2] : i \in e[3] + 1..Len(pth)} ELSE seen
             pth1 == Append(IF cut THEN SubSeq(pth, 1, e[3]) ELSE pth, <<e[1], e[2], e[4]>>)
             next == SelectSeq(PyIter(DGet(ringsd, e[2])),
                               LAMBDA n : /\ n \notin seen1 \cup {e[2]}
                                          /\ n \notin dbl
                                          /\ bond_order(m, e[2], n) = e[4])
         IN IF e[2] \in acceptors
            THEN IF e[4] = 1  \* we found
                 THEN [found |-> TRUE, at |-> e[2], path |-> pth1]
                 ELSE TautomerWalk(m, ringsd, dbl, acceptors, Front(stk), pth1, seen1)
            ELSE TautomerWalk(m, ringsd, dbl, acceptors,
                              Front(stk) \o [i \in 1..Len(next) |->
                                  <<e[2], next[i], e[3] + 1, IF e[4] = 2 THEN 1 ELSE 2>>],
                              pth1, seen1 \cup {e[2]})

\* lines 151-171 for one donor, w being where its walk ended
TautomerMove(st, donor, w) ==
    [mol |-> PatchBonds(IF w.found
                        THEN [st.mol EXCEPT !.hydrogens[w.at] = 1, !.hydrogens[donor] = 0]
                        ELSE st.mol, w.path),
     acceptors |-> IF w.found THEN st.acceptors \ {w.at} ELSE st.acceptors,
     pyroles |-> IF w.found THEN (st.pyroles \ {donor}) \cup {w.at} ELSE st.pyroles]

\* lines 144-173
RECURSIVE FixTautomers(_, _, _, _)
FixTautomers(st, ringsd, dbl, donors) ==
    Eager(st,
    IF donors = <<>> \/ st.acceptors = {} THEN st
    ELSE LET first == SelectSeq(PyIter(DGet(ringsd, donors[1])), LAMBDA n : n \notin dbl)
         IN FixTautomers(
                TautomerMove(st, donors[1],
                    TautomerWalk(st.mol, ringsd, dbl, st.acceptors,
                                 [i \in 1..Len(first) |-> <<donors[1], first[i], 0, 2>>],
                                 <<>>, {donors[1]})),
                ringsd, dbl, Tail(donors)))

\* del rings[n]
DRemove(d, n) == SelectSeq(d, LAMBDA e : e[1] # n)

\* lines 176-181: the quinone atoms leave the skeleton, and the atoms they
\* leave alone
DeleteQuinones(ringsd, dbl) ==
    LET kept == SelectSeq(ringsd, LAMBDA e : e[1] \notin dbl /\ e[2] \ dbl # {})
    IN [i \in 1..Len(kept) |-> <<kept[i][1], kept[i][2] \ dbl>>]

\* rings[x].discard(n) for every x of xs
DiscardFrom(d, xs, n) ==
    [i \in 1..Len(d) |-> IF d[i][1] \in xs THEN <<d[i][1], d[i][2] \ {n}>> ELSE d[i]]

\* lines 184-196: atoms of degree 1 are cut off, with their neighbour unless
\* they are pyrrole-like
RECURSIVE StripPendants(_, _)
StripPendants(ringsd, pyr) ==
    LET ends == SelectSeq(ringsd, LAMBDA e : Cardinality(e[2]) = 1)
    IN IF ends = <<>> THEN ringsd
       ELSE LET n == ends[1][1]
                x == CHOOSE y \in ends[1][2] : TRUE
            IN IF n \in pyr
               THEN StripPendants(DiscardFrom(DRemove(ringsd, n), {x}, n), pyr)
               ELSE StripPendants(DiscardFrom(DRemove(DRemove(ringsd, n), x),
                                              DGet(ringsd, x) \ {n}, x), pyr)

\* the dict of sets as the graph _sssr and _connected_components take
AsFunction(d) == [n \in DKeys(d) |-> DGet(d, n)]

\* bonds[n][m]._Bond__order = o along a ring, lines 217-219 and 222-224
RingPatch(ring, o) == [i \in 1..Len(ring) |-> <<RingPairs(ring)[i][1], RingPairs(ring)[i][2], o>>]

RECURSIVE SetRings(_, _, _)
SetRings(m, rs, o) ==
    IF rs = <<>> THEN m ELSE SetRings(PatchBonds(m, RingPatch(rs[1], o)), Tail(rs), o)

\* atoms of the rings
RingAtoms(rs) == UNION {Range(rs[i]) : i \in 1..Len(rs)}

\* charges.update(fixed_charges), line 211
UpdateCharges(m, fixed) ==
    [m EXCEPT !.charge = [n \in MAtoms(m) |-> IF DHas(fixed, n) THEN DGet(fixed, n) ELSE @[n]]]

\* lines 227-239: rings of two neutral nitrogens that the rule N1-A=A-A:A1 finds
RECURSIVE Freaks(_, _)
Freaks(m, fr) ==
    IF fr = <<>> THEN m
    ELSE IF get_mapping(m, freaks[1], Range(fr[1])) # <<>>
    THEN Freaks([PatchBonds(m, RingPatch(fr[1], 4))
                    EXCEPT !.hyb = [n \in MAtoms(m) |-> IF n \in Range(fr[1]) THEN 4 ELSE @[n]]],
                Tail(fr))
    ELSE Freaks(m, Tail(fr))

\* thiele returns v at the given line
ThieleReturn(v, line, m, found) ==
    [pc |-> "returned", value |-> v, line |-> line, mol |-> m, rings |-> found]

\* a plausible slip: the four-rings are reset to single after the rings were
\* set to order 4, not before
ThieleCommit_reset_last(m, st, found) ==
    IF found.pc # "returned"
    THEN [pc |-> found.pc, value |-> "none", line |-> 203, mol |-> m, rings |-> <<>>]
    ELSE LET seen == RingAtoms(found.out)
             m1 == UpdateCharges([m EXCEPT !.hyb = [n \in MAtoms(m) |->
                                                       IF n \in seen THEN 4 ELSE @[n]]],
                                 st.fixed)
             tetra == SelectSeq(st.tetracycles, LAMBDA r : Range(r) \subseteq seen)
         IN ThieleReturn("True", 243,
                         Freaks(SetRings(SetRings(m1, found.out, 4), tetra, 1), st.freaks),
                         found.out)

\* lines 205-243, found being the rings that _sssr gave at line 203
ThieleCommit(m, st, found) ==
    IF found.pc # "returned"
    THEN [pc |-> found.pc, value |-> "none", line |-> 203, mol |-> m, rings |-> <<>>]
    ELSE LET seen == RingAtoms(found.out)
             m1 == UpdateCharges([m EXCEPT !.hyb = [n \in MAtoms(m) |->
                                                       IF n \in seen THEN 4 ELSE @[n]]],
                                 st.fixed)
             tetra == SelectSeq(st.tetracycles, LAMBDA r : Range(r) \subseteq seen)
         IN ThieleReturn("True", 243,
                         Freaks(SetRings(SetRings(m1, tetra, 1), found.out, 4), st.freaks),
                         found.out)

\* lines 197-203, ringsd being the skeleton without quinones and pendants
ThieleReduced(m, st, ringsd) ==
    IF ringsd = <<>> THEN ThieleReturn("False", 198, m, <<>>)
    ELSE IF CircuitRank(AsFunction(ringsd)) = 0 THEN ThieleReturn("False", 202, m, <<>>)
    ELSE ThieleCommit(m, st, sssr_of(AsFunction(ringsd), CircuitRank(AsFunction(ringsd))))

\* lines 175-196, dbl being double_bonded
ThieleQuinones(m, st, dbl, ringsd) ==
    IF dbl # {} /\ ringsd = <<>> THEN ThieleReturn("False", 183, m, <<>>)
    ELSE ThieleReduced(m, st, IF dbl = {} THEN ringsd ELSE StripPendants(ringsd, st.pyroles))

\* lines 143-196, t being what the tautomer fix left
ThieleFixed(st, dbl, t) ==
    ThieleQuinones(t.mol, [st EXCEPT !.pyroles = t.pyroles, !.acceptors = t.acceptors], dbl,
                   IF dbl = {} THEN st.rings ELSE DeleteQuinones(st.rings, dbl))

\* lines 138-173, st being what the loop over self.sssr collected
ThieleCollected(m, st, dbl, ft) ==
    IF st.rings = <<>> THEN ThieleReturn("False", 139, m, <<>>)
    ELSE ThieleFixed(st, dbl,
             IF ft /\ st.acceptors # {} /\ st.donors # <<>>
             THEN FixTautomers([mol |-> m, acceptors |-> st.acceptors, pyroles |-> st.pyroles],
                               st.rings, dbl, st.donors)
             ELSE [mol |-> m, acceptors |-> st.acceptors, pyroles |-> st.pyroles])

\* line 140
DoubleBonded(m, ringsd) ==
    {n \in DKeys(ringsd) : Range(BondedBy(m, n, 2)) \ DKeys(ringsd) # {}}

ThieleOnRings(m, st, ft) == ThieleCollected(m, st, DoubleBonded(m, st.rings), ft)

\* lines 57-243, rs being self.sssr
ThieleSssr(m, rs, ft, fmo) ==
    IF rs.pc # "returned"
    THEN [pc |-> rs.pc, value |-> "none", line |-> 57, mol |-> m, rings |-> <<>>]
    ELSE ThieleOnRings(m, ThieleRings(m, [rings |-> <<>>, tetracycles |-> <<>>, pyroles |-> {},
                                          acceptors |-> {}, donors |-> <<>>, freaks |-> <<>>,
                                          fixed |-> <<>>], rs.out, ft, fmo), ft)

\* thiele(self, fix_tautomers, fix_metal_organics): how it ends, the molecule
\* it leaves and the rings it set to order 4
thiele(m, ft, fmo) == ThieleSssr(m, m.sssr, ft, fmo)

\* ------------------------------------------------------------------------
\* the molecules given to the public methods
\* ------------------------------------------------------------------------
\* add_bond for the bonds of E in turn
RECURSIVE AddBonds(_, _)
AddBonds(bonds, E) ==
    IF E = <<>> THEN bonds
    ELSE AddBonds([bonds EXCEPT ![E[1][1]] = Append(@, <<E[1][2], E[1][3]>>),
                                ![E[1][2]] = Append(@, <<E[1][1], E[1][3]>>)], Tail(E))

\* self.sssr before its first use
NotCached == [pc |-> "none", out |-> <<>>]

\* a molecule as the container builds it: atoms of the elements an, charges
\* and radical marks as given, the bonds of E added in order, hybridization
\* and implicit hydrogens calculated
MakeMol(an, charge, radical, E) ==
    LET m0 == [an |-> an, charge |-> charge, radical |-> radical,
               hydrogens |-> [n \in 1..Len(an) |-> None], hyb |-> [n \in 1..Len(an) |-> 1],
               bonds |-> AddBonds([n \in 1..Len(an) |-> <<>>], E), sssr |-> NotCached]
        m1 == [m0 EXCEPT !.hyb = [n \in 1..Len(an) |-> calc_hybridization(m0, n)]]
    IN [m1 EXCEPT !.hydrogens = [n \in 1..Len(an) |-> calc_implicit(m1, n)]]

Neutral(n) == [i \in 1..n |-> 0]
NoRadical(n) == [i \in 1..n |-> FALSE]
Carbons(n) == [i \in 1..n |-> 6]

\* the bonds of a cycle on the atoms from..from + Len(orders) - 1
RingBonds(from, orders) ==
    [i \in 1..Len(orders) |-> <<from + i - 1, from + (i % Len(orders)), orders[i]>>]

\* one ring of carbons whose atom 1 is of element e
OneRing(e, orders) ==
    MakeMol([Carbons(Len(orders)) EXCEPT ![1] = e], Neutral(Len(orders)), NoRadical(Len(orders)),
            RingBonds(1, orders))

\* every ring of 3..MaxRing atoms, kekule-like (orders 1, 2) or with
\* aromatic bonds (orders 1, 4), atom 1 being C, N or O
RingFamily ==
    {OneRing(e, o) : <<e, o>> \in {6, 7, 8} \X
        UNION {[1..n -> {1, 2}] \cup [1..n -> {1, 4}] : n \in 3..MaxRing}}

Alternate(n) == [i \in 1..n |-> IF i % 2 = 1 THEN 1 ELSE 2]
Aromatic(n) == [i \in 1..n |-> 4]

Benzene == OneRing(6, Alternate(6))
AromaticBenzene == OneRing(6, Aromatic(6))

\* two aromatic four-rings joined by an aromatic bond: c1ccc1c1ccc1
LinkedRings ==
    MakeMol(Carbons(8), Neutral(8), NoRadical(8),
            RingBonds(1, Aromatic(4)) \o RingBonds(5, Aromatic(4)) \o <<<<4, 5, 4>>>>)

\* two aromatic three-rings joined through atom 4 by two aromatic bonds
BridgedRings ==
    MakeMol(Carbons(7), Neutral(7), NoRadical(7),
            RingBonds(1, Aromatic(3)) \o RingBonds(5, Aromatic(3)) \o <<<<3, 4, 4>>, <<4, 5, 4>>>>)

\* pyridine N-oxide written with aromatic bonds and N=O
AromaticNOxide ==
    MakeMol(<<7, 6, 6, 6, 6, 6, 8>>, Neutral(7), NoRadical(7),
            RingBonds(1, Aromatic(6)) \o <<<<1, 7, 2>>>>)

\* a fused 5-6 system with a ring NH, a ring N and two ketone oxygens
TautomerQuinone ==
    MakeMol(<<6, 6, 7, 6, 6, 6, 6, 6, 7, 8, 8>>, Neutral(11), NoRadical(11),
            <<<<1, 2, 1>>, <<1, 5, 2>>, <<1, 9, 1>>, <<2, 3, 1>>, <<2, 10, 2>>, <<3, 4, 2>>,
              <<4, 5, 1>>, <<5, 6, 1>>, <<6, 7, 1>>, <<6, 11, 2>>, <<7, 8, 2>>, <<8, 9, 1>>>>)

\* cyclopentadienyl anion bound to Fe(2+)
CpIron ==
    MakeMol(<<6, 6, 6, 6, 6, 26>>, <<-1, 0, 0, 0, 0, 2>>, NoRadical(6),
            <<<<1, 2, 1>>, <<1, 5, 1>>, <<1, 6, 8>>, <<2, 3, 2>>, <<3, 4, 1>>, <<4, 5, 2>>>>)

\* three five-rings around a P(=O) centre; the perimeter has nine atoms
PhosphineOxideTricycle ==
    MakeMol(<<15, 6, 8, 6, 6, 6, 6, 6, 6, 6, 8>>, Neutral(11), NoRadical(11),
            <<<<1, 2, 1>>, <<1, 5, 1>>, <<1, 8, 1>>, <<1, 11, 2>>, <<2, 3, 1>>, <<3, 4, 1>>,
              <<4, 5, 2>>, <<5, 6, 1>>, <<6, 7, 2>>, <<7, 8, 1>>, <<8, 9, 2>>, <<9, 10, 1>>,
              <<2, 10, 2>>>>)

\* indolizine written with aromatic bonds: N1 is shared by the five-ring
\* 1-2-3-4-5 and the six-ring 1-5-6-7-8-9
Indolizine ==
    MakeMol(<<7, 6, 6, 6, 6, 6, 6, 6, 6>>, Neutral(9), NoRadical(9),
            RingBonds(1, Aromatic(5)) \o
            <<<<5, 6, 4>>, <<6, 7, 4>>, <<7, 8, 4>>, <<8, 9, 4>>, <<9, 1, 4>>>>)

\* a five-ring N1:C2#C3:N4:C5:N1 whose bond 2-3 is written as a triple bond
TripleAzole ==
    MakeMol(<<7, 6, 6, 7, 6>>, Neutral(5), NoRadical(5),
            <<<<1, 2, 4>>, <<2, 3, 3>>, <<3, 4, 4>>, <<4, 5, 4>>, <<5, 1, 4>>>>)

\* biphenylene in Kekule form: the six-rings 1..6 and 7..12 joined by the
\* bonds 6-7 and 12-1, which close the four-ring 1-6-7-12
Biphenylene ==
    MakeMol(Carbons(12), Neutral(12), NoRadical(12),
            RingBonds(1, <<2, 1, 2, 1, 2, 1>>) \o RingBonds(7, <<2, 1, 2, 1, 2, 1>>) \o
            <<<<6, 7, 1>>, <<12, 1, 1>>>>)

\* the cached property is filled: its value depends on the bonds of order
\* other than 8 only, which no method adds or removes
Cached(m) == [m EXCEPT !.sssr = sssr(m)]

\* 4-pyridone (ring NH at atom 1, ketone O at 7) beside a separate five-ring
\* of sp2 atoms with a ring N at atom 11 and a ketone O at 13
PyridoneAndAzolone ==
    MakeMol(<<7, 6, 6, 6, 6, 6, 8, 6, 6, 6, 7, 6, 8>>, Neutral(13), NoRadical(13),
            <<<<1, 2, 1>>, <<2, 3, 2>>, <<3, 4, 1>>, <<4, 5, 1>>, <<5, 6, 2>>, <<6, 1, 1>>,
              <<4, 7, 2>>, <<8, 9, 2>>, <<9, 10, 1>>, <<10, 11, 1>>, <<11, 12, 2>>,
              <<12, 8, 1>>, <<10, 13, 2>>>>)

\* benzene and a three-ring of carbons, both written with aromatic bonds and
\* not bonded to each other
BenzeneAndTriangle ==
    MakeMol(Carbons(9), Neutral(9), NoRadical(9),
            RingBonds(1, Aromatic(6)) \o RingBonds(7, Aromatic(3)))

MolInputs ==
    RingFamily \cup {Benzene, AromaticBenzene, LinkedRings, BridgedRings, AromaticNOxide,
                     TautomerQuinone, CpIron, PhosphineOxideTricycle, Indolizine,
                     TripleAzole, Biphenylene, PyridoneAndAzolone, BenzeneAndTriangle}

\* ------------------------------------------------------------------------
\* the public methods as a caller runs them, one after another
\* ------------------------------------------------------------------------
NoRet == [kind |-> "none", value |-> "none", line |-> 0]
\* a return value; line is the raise that was caught on the way, if any
Return(v, line) == [kind |-> "return", value |-> v, line |-> line]
\* an exception that leaves the method, and the line that raised it
Raised(e, line) == [kind |-> "raise", value |-> e, line |-> line]

Method(op, fast, ft, fmo) ==
    [op |-> op, fast |-> fast, fix_tautomers |-> ft, fix_metal_organics |-> fmo]

InitMol ==
    /\ \E m \in MolInputs : mol = Cached(m)
    /\ m_call = Method("none", FALSE, FALSE, FALSE)
    /\ m_pc = "idle" /\ m_ret = NoRet /\ m_before = mol /\ m_log = <<>>
    /\ m_skel = NoSkeleton /\ m_comps = <<>> /\ m_form = <<>> /\ m_copies = <<>>
    /\ m_rings = <<>>
    /\ KekuleIdle
    /\ CanonIdle
    /\ SssrIdle

\* the caller may call c now: a first call, the same call again, or kekule
\* after thiele
MayCall(c) ==
    /\ m_pc = "idle"
    /\ Len(m_log) < MaxCalls
    /\ IF m_log = <<>> THEN TRUE
       ELSE \/ c = Last(m_log).call
            \/ c.op = "kekule" /\ Last(m_log).call.op = "thiele"

Enter(c, pc) ==
    /\ MayCall(c)
    /\ m_call' = c /\ m_before' = mol /\ m_pc' = pc /\ m_ret' = NoRet
    /\ m_copies' = <<>> /\ m_form' = <<>> /\ m_comps' = <<>> /\ m_skel' = NoSkeleton
    /\ m_rings' = <<>>
    /\ UNCHANGED <<mol, m_log, kekule_vars, canon_vars, sssr_vars>>

\* the method ends with ret and leaves the molecule as after
Finish(ret, after) ==
    /\ mol' = after
    /\ m_ret' = ret
    /\ m_log' = Append(m_log, [call |-> m_call, ret |-> ret, before |-> m_before,
                               after |-> after])
    /\ m_pc' = "idle"

\* check_thiele(fast), line 269
CallCheckThiele ==
    \E fast \in BOOLEAN :
        Enter(Method("check_thiele", fast, FALSE, FALSE), IF fast THEN "prepare" ELSE "fix_rings")

\* kekule(), line 245
CallKekule == Enter(Method("kekule", FALSE, FALSE, FALSE), "fix_rings")

\* enumerate_kekule(), line 260, and the first pull
CallEnumerate == Enter(Method("enumerate_kekule", FALSE, FALSE, FALSE), "fix_rings")

\* thiele(fix_tautomers, fix_metal_organics), line 35
CallThiele ==
    \E ft \in BOOLEAN : \E fmo \in BOOLEAN : Enter(Method("thiele", FALSE, ft, fmo), "thiele")

\* lines 44-243, r being how thiele ends
Thieled(r) ==
    /\ IF r.pc = "returned"
       THEN Finish(Return(r.value, r.line), r.mol)
       ELSE Finish(Raised(r.pc, r.line), r.mol)
    /\ m_rings' = r.rings

Thiele ==
    /\ m_pc = "thiele"
    /\ Thieled(thiele(mol, m_call.fix_tautomers, m_call.fix_metal_organics))
    /\ UNCHANGED <<m_call, m_before, m_skel, m_comps, m_form, m_copies,
                   kekule_vars, canon_vars, sssr_vars>>

\* __kekule_full, line 518
FixRings ==
    /\ m_pc = "fix_rings"
    /\ mol' = fix_rings(mol)
    /\ m_pc' = "prepare"
    /\ UNCHANGED <<m_call, m_ret, m_before, m_log, m_skel, m_comps, m_form, m_copies, m_rings,
                   kekule_vars, canon_vars, sssr_vars>>

\* lines 520-537 once __prepare_rings gave r and the components are comps
Prepared(r, comps) ==
    IF r.pc # "returned"
    THEN /\ IF r.pc = "InvalidAromaticRing" /\ m_call.op = "check_thiele"
            THEN Finish(Return("False", r.line), r.mol)  \* lines 280-281
            ELSE Finish(Raised(r.pc, r.line), r.mol)
         /\ UNCHANGED <<m_skel, m_comps>>
    ELSE IF m_call.op = "check_thiele" /\ m_call.fast
    THEN /\ Finish(Return("True", 0), r.mol)
         /\ UNCHANGED <<m_skel, m_comps>>
    ELSE /\ mol' = r.mol
         /\ m_skel' = r.skel
         /\ m_comps' = comps
         /\ m_pc' = IF comps = <<>> THEN "form" ELSE "product"
         /\ UNCHANGED <<m_ret, m_log>>

PreparedSkeleton(r) == Prepared(r, components_of(r.skel.rings))

\* __prepare_rings as called at line 279 or 519, and lines 520-534
PrepareRings ==
    /\ m_pc = "prepare"
    /\ PreparedSkeleton(prepare_rings(mol))
    /\ UNCHANGED <<m_call, m_before, m_form, m_copies, m_rings, kekule_vars, canon_vars,
                   sssr_vars>>

\* lines 536-537: the product makes the generator of the next component
LoadComponent ==
    /\ m_pc = "product"
    /\ m_comps # <<>>
    /\ LET c == m_comps[1] IN
       /\ rings' = [n \in Range(c) |-> DGet(m_skel.rings, n)]
       /\ ring_keys' = c
       /\ double_bonded' = m_skel.double_bonded \cap Range(c)
       /\ in_double' = m_skel.double_bonded \cap Range(c)
       /\ pyroles' = m_skel.pyroles \cap Range(c)
    /\ start' = None /\ stack' = <<>> /\ path' = <<>> /\ hashed_path' = {}
    /\ nether_yielded' = TRUE /\ yielded' = <<>> /\ k_pc' = "created"
    /\ m_comps' = Tail(m_comps)
    /\ m_pc' = "search"
    /\ UNCHANGED <<mol, m_call, m_ret, m_before, m_log, m_skel, m_form, m_copies,
                   m_rings, canon_vars, sssr_vars>>

\* the generator of a component raised
ComponentRaise ==
    /\ m_pc = "search"
    /\ k_pc \in {"InvalidAromaticRing", "IndexError", "ValueError"}
    /\ IF k_pc = "InvalidAromaticRing"
       THEN IF m_call.op = "check_thiele"
            THEN Finish(Return("False", 674), mol)
            ELSE Finish(Raised(k_pc, 674), mol)
       ELSE Finish(Raised(k_pc, 0), mol)
    /\ UNCHANGED <<m_call, m_before, m_skel, m_comps, m_form, m_copies, m_rings,
                   kekule_vars, canon_vars, sssr_vars>>

\* a plausible slip: the orders of a component are written to the bonds as
\* soon as its assignment is found
TakeForm_eager ==
    /\ m_pc = "search"
    /\ k_pc = "yielded"
    /\ m_form' = m_form \o Last(yielded)
    /\ mol' = kekule_patch(mol, Last(yielded))
    /\ m_pc' = IF m_comps = <<>> THEN "form" ELSE "product"
    /\ UNCHANGED <<m_call, m_ret, m_before, m_log, m_skel, m_comps, m_copies, m_rings,
                   kekule_vars, canon_vars, sssr_vars>>

\* line 538: the path of the component joins the form
TakeForm ==
    /\ m_pc = "search"
    /\ k_pc = "yielded"
    /\ m_form' = m_form \o Last(yielded)
    /\ m_pc' = IF m_comps = <<>> THEN "form" ELSE "product"
    /\ UNCHANGED <<mol, m_call, m_ret, m_before, m_log, m_skel, m_comps, m_copies, m_rings,
                   kekule_vars, canon_vars, sssr_vars>>

\* check_thiele(fast=False): next(self.__kekule_full(), None) gave a form
CheckReturn ==
    /\ m_pc = "form"
    /\ m_call.op = "check_thiele"
    /\ Finish(Return("True", 0), mol)
    /\ UNCHANGED <<m_call, m_before, m_skel, m_comps, m_form, m_copies, m_rings,
                   kekule_vars, canon_vars, sssr_vars>>

\* kekule, lines 253-258
KekuleReturn ==
    /\ m_pc = "form"
    /\ m_call.op = "kekule"
    /\ IF m_form # <<>>
       THEN Finish(Return("True", 0), kekule_patch(mol, m_form))
       ELSE Finish(Return("False", 0), mol)
    /\ UNCHANGED <<m_call, m_before, m_skel, m_comps, m_form, m_copies, m_rings,
                   kekule_vars, canon_vars, sssr_vars>>

\* enumerate_kekule, lines 264-267: a patched copy goes to the consumer
YieldCopy ==
    /\ m_pc = "form"
    /\ m_call.op = "enumerate_kekule"
    /\ m_copies' = Append(m_copies, kekule_patch(mol, m_form))
    /\ m_pc' = "consumer"
    /\ UNCHANGED <<mol, m_call, m_ret, m_before, m_log, m_skel, m_comps, m_form,
                   m_rings, kekule_vars, canon_vars, sssr_vars>>

\* the consumer pulls the next form of a molecule of one component: the
\* generator of the component goes on after its yield (lines 574-579)
PullAgain ==
    /\ m_pc = "consumer"
    /\ Len(components_of(m_skel.rings)) = 1
    /\ k_pc = "yielded"
    /\ nether_yielded' = FALSE
    /\ LET d == DropFrame(stack, path, hashed_path) IN
       /\ stack' = d.stack /\ path' = d.path /\ hashed_path' = d.hashed
       /\ k_pc' = IF d.err = "none" THEN "loop" ELSE d.err
    /\ m_form' = <<>>
    /\ m_pc' = "search"
    /\ UNCHANGED <<rings, ring_keys, double_bonded, pyroles, in_double, start, yielded,
                   mol, m_call, m_ret, m_before, m_log, m_skel, m_comps, m_copies,
                   m_rings, canon_vars, sssr_vars>>

\* the generator of the only component ended: no more forms
EnumerateEnd ==
    /\ m_pc = "search"
    /\ k_pc = "done"
    /\ Finish(Return("exhausted", 0), mol)
    /\ UNCHANGED <<m_call, m_before, m_skel, m_comps, m_form, m_copies, m_rings,
                   kekule_vars, canon_vars, sssr_vars>>

\* a molecule without aromatic skeleton has the one empty form and no more;
\* of a molecule of several components the consumer takes the first form only
EnumerateStop ==
    /\ m_pc = "consumer"
    /\ Len(components_of(m_skel.rings)) # 1
    /\ Finish(Return(IF m_skel.rings = <<>> THEN "exhausted" ELSE "closed", 0), mol)
    /\ UNCHANGED <<m_call, m_before, m_skel, m_comps, m_form, m_copies, m_rings,
                   kekule_vars, canon_vars, sssr_vars>>

NextMol ==
    \/ CallCheckThiele \/ CallKekule \/ CallEnumerate \/ CallThiele \/ Thiele
    \/ FixRings \/ PrepareRings \/ LoadComponent
    \/ KekuleStart \/ KekuleIter \/ KekuleFinish
    \/ ComponentRaise \/ TakeForm \/ CheckReturn \/ KekuleReturn
    \/ YieldCopy \/ PullAgain \/ EnumerateEnd \/ EnumerateStop

SpecMol == InitMol /\ [][NextMol]_vars

\* ------------------------------------------------------------------------
\* what the calls that ended did
\* ------------------------------------------------------------------------
Calls == {m_log[i] : i \in 1..Len(m_log)}

\* the lines of __prepare_rings that raise a structural or valence error
StructuralLines == {330, 358, 375, 379, 381, 390}

\* a ring of five uncharged, non-radical carbons with five aromatic bonds
AromaticCarbonFive(m) ==
    /\ m.an = Carbons(5) /\ m.charge = Neutral(5) /\ m.radical = NoRadical(5)
    /\ \A n \in 1..5 : Len(m.bonds[n]) = 2 /\ Len(BondedBy(m, n, 4)) = 2
    /\ m.sssr.out = <<<<1, 2, 3, 4, 5>>>>

\* C11: check_thiele(fast=True) on the ring of five uncharged, non-radical
\* carbons with five aromatic bonds returns False, and it does so because
\* __prepare_rings raised a structural error (not because the Kekule search
\* was exhausted)
C11_CarbonFiveRingRejected ==
    \A e \in Calls :
        (e.call = Method("check_thiele", TRUE, FALSE, FALSE) /\ AromaticCarbonFive(e.before))
            => (e.ret.value = "False" /\ e.ret.line \in StructuralLines)

\* the kind of error __prepare_rings reports structural and valence errors with
StructuralKind == PrepareRaise(358, mol).pc

\* C12: a failure by exhaustion of the Kekule search (the raise of line 674)
\* leaves kekule and enumerate_kekule as an error of another kind than the
\* kind of the structural and valence errors of __prepare_rings
C12_ExhaustionToldApart ==
    \A e \in Calls :
        (e.ret.kind = "raise" /\ e.ret.line = 674) => e.ret.value # StructuralKind

\* the bond orders, charges, hydrogen counts and hybridizations agree
SameMolecule(a, b) ==
    /\ a.bonds = b.bonds /\ a.charge = b.charge
    /\ a.hydrogens = b.hydrogens /\ a.hyb = b.hyb

\* C13: check_thiele, with fast=True and with fast=False and whatever it
\* returns, leaves every bond order, charge, hydrogen count and hybridization
\* of the molecule as it was
C13_CheckThieleReadOnly ==
    \A e \in Calls : e.call.op = "check_thiele" => SameMolecule(e.after, e.before)

\* C14: enumerate_kekule leaves the source molecule unchanged: while items
\* are pulled and after the last one, every bond order, charge, hydrogen
\* count and hybridization of the source is as it was before the call; the
\* Kekule orders go to the copies only
C14_EnumerateLeavesSource ==
    /\ m_call.op = "enumerate_kekule" => SameMolecule(mol, m_before)
    /\ \A e \in Calls : e.call.op = "enumerate_kekule" => SameMolecule(e.after, e.before)

\* C15: thiele tells whether anything changed: a call that returned False, with
\* any fix_tautomers and fix_metal_organics, left every bond order, hydrogen
\* count, charge and hybridization as it was
C15_ThieleFalseNoChange ==
    \A e \in Calls :
        (e.call.op = "thiele" /\ e.ret = Return("False", e.ret.line))
            => SameMolecule(e.after, e.before)

\* the calls that ended, each with the call that ended right before it
CallPairs == {<<m_log[i], m_log[i + 1]>> : i \in 1..Len(m_log) - 1}

\* C16: thiele is idempotent: a thiele call made directly after a thiele call
\* on the same molecule returns False and changes no bond order, charge,
\* hydrogen count or hybridization
C16_ThieleIdempotent ==
    \A p \in CallPairs :
        (p[1].call.op = "thiele" /\ p[2].call.op = "thiele")
            => (p[2].ret.value = "False" /\ SameMolecule(p[2].after, p[2].before))

\* no bond of the molecule has the aromatic order 4
NoAromaticBond(m) ==
    \A n \in MAtoms(m) : \A i \in 1..Len(m.bonds[n]) : m.bonds[n][i][2] # 4

\* the call returned False and left the molecule as it was
FalseUnchanged(e) ==
    /\ e.ret.kind = "return"
    /\ e.ret.value = "False"
    /\ SameMolecule(e.after, e.before)

\* C17: kekule on a molecule that has no bond of order 4 returns False and
\* changes no bond order, charge, hydrogen count or hybridization; in
\* particular a kekule right after a kekule that returned True returns False
C17_KekuleNothingToDo ==
    /\ \A e \in Calls :
        (e.call.op = "kekule" /\ NoAromaticBond(e.before)) => FalseUnchanged(e)
    /\ \A p \in CallPairs :
        (/\ p[1].call.op = "kekule"
         /\ p[1].ret.kind = "return" /\ p[1].ret.value = "True"
         /\ p[2].call.op = "kekule") => FalseUnchanged(p[2])

\* a kekule that returned True was followed by a kekule that returned False
C17_Witness ==
    /\ Len(m_log) = 2
    /\ m_log[1].call.op = "kekule" /\ m_log[1].ret.value = "True"
    /\ ~NoAromaticBond(m_log[1].before)
    /\ m_log[2].call.op = "kekule" /\ FalseUnchanged(m_log[2])
    /\ NoAromaticBond(m_log[2].before)

\* the order of the bond n-k of the molecule, 0 when there is none
OrderIn(m, n, k) ==
    LET hit == SelectSeq(m.bonds[n], LAMBDA b : b[1] = k)
    IN IF hit = <<>> THEN 0 ELSE hit[1][2]

\* the bonds that are aromatic in the molecule
AromaticBonds(m) ==
    {<<n, k>> \in MAtoms(m) \X MAtoms(m) : OrderIn(m, n, k) = 4}

\* over the bonds of B the molecule has single and double bonds only, and no
\* atom two double bonds
AlternatingOver(m, B) ==
    /\ \A b \in B : OrderIn(m, b[1], b[2]) \in {1, 2}
    /\ \A n \in MAtoms(m) :
        Cardinality({b \in B : b[1] = n /\ OrderIn(m, n, b[2]) = 2}) <= 1

\* a thiele that returned True on a molecule in Kekule form, followed by kekule
RoundTrips ==
    {p \in CallPairs : /\ p[1].call.op = "thiele"
                       /\ NoAromaticBond(p[1].before)
                       /\ p[1].ret.kind = "return" /\ p[1].ret.value = "True"
                       /\ p[2].call.op = "kekule"}

\* C18: when thiele returns True on a molecule in Kekule form and kekule is
\* called next, kekule succeeds, the bonds thiele made aromatic end with
\* orders 1 or 2 in an alternating pattern over the same atoms, and every
\* atom has the element and the charge it had before thiele
C18_RoundTrip ==
    \A p \in RoundTrips :
        /\ p[2].ret.kind = "return" /\ p[2].ret.value = "True"
        /\ AlternatingOver(p[2].after, AromaticBonds(p[1].after))
        /\ p[2].after.an = p[1].before.an
        /\ p[2].after.charge = p[1].before.charge

\* C19: thiele never aromatizes a ring of size 3 or of size 8 or more: every
\* ring it re-derives from the reduced skeleton and sets to order 4 has
\* between 4 and 7 atoms
C19_RingSizesFourToSeven ==
    \A i \in 1..Len(m_rings) : Len(m_rings[i]) \in 4..7

\* C20: whenever __prepare_rings returns without error, every atom of the
\* aromatic skeleton it returns has two or three neighbours in the skeleton
C20_SkeletonDegrees ==
    \A i \in 1..Len(m_skel.rings) : Len(m_skel.rings[i][2]) \in {2, 3}

\* C21: whenever __prepare_rings returns without error, every atom of the
\* double-bonded set it returns has exactly two neighbours in the skeleton,
\* whether the atom got the class from an exocyclic double bond or from the
\* decision table of its element
C21_DoubleBondedDegreeTwo ==
    \A n \in m_skel.double_bonded : Len(DGet(m_skel.rings, n)) = 2

\* the bonds of order o of the molecule
BondsOfOrder(m, o) ==
    {<<n, k>> \in MAtoms(m) \X MAtoms(m) : OrderIn(m, n, k) = o}

\* an atom of the molecule has an aromatic bond and a triple bond
TripleAtAromatic(m) ==
    \E a \in BondsOfOrder(m, 4) : \E t \in BondsOfOrder(m, 3) : a[1] = t[1]

\* the call reported an error of __prepare_rings
StructuralError(e) ==
    /\ e.ret.line \in StructuralLines
    /\ IF e.call.op = "check_thiele"
       THEN e.ret.kind = "return" /\ e.ret.value = "False"
       ELSE e.ret.kind = "raise" /\ e.ret.value = StructuralKind

\* C22: if an atom with an aromatic bond also has a triple bond, kekule,
\* enumerate_kekule and check_thiele report a structural error (check_thiele
\* returns False) and no triple bond is rewritten to another order
C22_TripleAtRingReported ==
    \A e \in Calls :
        (e.call.op \in {"kekule", "enumerate_kekule", "check_thiele"}
            /\ TripleAtAromatic(e.before))
        => (StructuralError(e) /\ BondsOfOrder(e.after, 3) = BondsOfOrder(e.before, 3))

\* every bond of the ring has order 4 in the molecule and every atom of the
\* ring the hybridization tag 4
RingAromatic(m, ring) ==
    /\ \A i \in 1..Len(ring) : OrderIn(m, RingPairs(ring)[i][1], RingPairs(ring)[i][2]) = 4
    /\ \A i \in 1..Len(ring) : m.hyb[ring[i]] = 4

\* thiele has just returned True
ThieleTrue ==
    /\ m_pc = "idle" /\ m_call.op = "thiele"
    /\ m_ret.kind = "return" /\ m_ret.value = "True"

\* C23: when thiele returns True, every bond of every ring of its final ring
\* set has order 4 and every atom of those rings has hybridization 4, also
\* where a ring shares bonds with a four-ring whose bonds were reset to single
C23_CommittedRingsAromatic ==
    ThieleTrue => \A i \in 1..Len(m_rings) : RingAromatic(mol, m_rings[i])

\* thiele returned True on a molecule where a committed ring shares a bond with
\* a four-ring of the molecule whose atoms are all in committed rings
C23_Witness ==
    /\ ThieleTrue
    /\ \E i \in 1..Len(m_rings) : \E j \in 1..Len(mol.sssr.out) :
        /\ Len(mol.sssr.out[j]) = 4
        /\ Range(mol.sssr.out[j]) \subseteq RingAtoms(m_rings)
        /\ Cardinality(Range(mol.sssr.out[j]) \cap Range(m_rings[i])) = 2
    /\ \A i \in 1..Len(m_rings) : RingAromatic(mol, m_rings[i])

\* the generator has stopped: its loop ended or an exception left it
Stopped == k_pc \in {"done", "InvalidAromaticRing", "IndexError", "ValueError"}

\* the skeletons of the termination check: the enumerated ones of up to
\* MaxLive atoms, naphthalene and the bridged three-rings
InitKekuleLive ==
    /\ InitKekule
    /\ \/ Len(rings) <= MaxLive
       \/ rings \in {AsRings(10, NaphthaleneEdges), AsRings(6, BridgedTrianglesEdges)}

\* the generator runs on when it is pulled, and the consumer drains it
SpecKekuleLive == InitKekuleLive /\ [][NextKekule]_vars /\ WF_vars(NextKekule)

CubeCall == s_graph = AsGraph(8, CubeEdges) /\ RankGiven

\* the greedy pass of __rings_filter left rings for the repair pass to add
NeedsRepair == s_cands # <<>> /\ n_sssr > 1 /\ ~GreedyPass(s_cands, n_sssr).done

\* the call of _sssr has returned or raised
Ended == s_pc \notin {"idle", "call", "bfs", "pid", "relax", "filter"}

\* C25: a call that needs the repair pass ends by returning n_sssr rings;
\* on the cube graph (8 atoms, 12 edges, n_sssr = 5), which needs the
\* repair pass, _sssr ends by returning exactly five rings, each a
\* four-membered face, and not by raising ImplementationError
C25_CubeFiveFaces ==
    /\ (CubeCall /\ Ended)
        => /\ s_pc = "returned"
           /\ Len(s_out) = 5
           /\ \A i \in 1..Len(s_out) : Len(s_out[i]) = 4 /\ IsSimpleCycle(s_out[i], s_graph)
    /\ (RankGiven /\ NeedsRepair /\ Ended) => s_pc = "returned" /\ Len(s_out) = n_sssr

\* _sssr returned the five faces of the cube from the repair pass
C25_Witness ==
    /\ CubeCall /\ s_pc = "returned" /\ NeedsRepair
    /\ Len(s_out) = 5 /\ \A i \in 1..5 : Len(s_out[i]) = 4

\* __make_pid has returned: pid1, pid2 and distances are what __c_set reads
PidMade == s_pc \in {"filter", "returned", "ImplementationError", "StopIteration"}

\* the paths stored in pid1[i][j]
Pid1Paths(i, j) == Range(DValues(P1Get(pid1, i, j)))

\* the paths stored in pid2[i][j]
Pid2Paths(i, j) == Range(DValues(P2Get(pid2, i, j)))

\* every path of pid1[i][j] has distances[i][j] edges
Pid1Exact ==
    \A i, j \in DOMAIN s_bonds :
        \A c \in Pid1Paths(i, j) : Len(c) - 1 = DistGet(distances, i, j)

\* every path of pid2[i][j] has distances[i][j] + 1 edges
Pid2Exact ==
    \A i, j \in DOMAIN s_bonds :
        \A c \in Pid2Paths(i, j) : Len(c) - 1 = DistGet(distances, i, j) + 1

\* the entries of c_set in the order in which the generator walks them
CSetSorted == SortByNum(CSetRows(pid1, pid2, distances))

\* every ring yielded for an entry has as many atoms as the c_num of the entry
YieldedSizeIsNum ==
    \A t \in 1..Len(CSetSorted) :
        \A r \in Range(CSetYield(CSetSorted[t])) : Len(r) = CSetSorted[t].num

\* the candidates come in non-decreasing size
CandsNonDecreasing ==
    \A a, b \in 1..Len(s_cands) : a < b => Len(s_cands[a]) <= Len(s_cands[b])

\* C26: when __make_pid has returned, every path of pid1[i][j] has
\* distances[i][j] edges and every path of pid2[i][j] one edge more, every
\* ring yielded by __c_set has as many atoms as the c_num of its entry, and
\* the candidates are yielded in non-decreasing size
C26_WitnessLengths ==
    PidMade => Pid1Exact /\ Pid2Exact /\ YieldedSizeIsNum /\ CandsNonDecreasing

\* __make_pid returned paths in pid1 and in pid2 for one pair of atoms, and
\* __c_set yielded rings of an even and of an odd size
C26_Witness ==
    /\ s_pc = "filter"
    /\ \E i, j \in DOMAIN s_bonds :
          /\ Cardinality(Pid1Paths(i, j)) > 1 /\ Pid2Paths(i, j) # {}
          /\ DistGet(distances, i, j) > 1
    /\ \E a, b \in 1..Len(s_cands) : Len(s_cands[a]) % 2 = 0 /\ Len(s_cands[b]) % 2 = 1

\* what the loop of thiele over self.sssr collected on the molecule m
Collected(m, ft, fmo) ==
    ThieleRings(m, [rings |-> <<>>, tetracycles |-> <<>>, pyroles |-> {}, acceptors |-> {},
                    donors |-> <<>>, freaks |-> <<>>, fixed |-> <<>>], m.sssr.out, ft, fmo)

\* the walk of lines 145-167 from the donor on the molecule m
DonorWalk(m, st, donor) ==
    LET dbl == DoubleBonded(m, st.rings)
        first == SelectSeq(PyIter(DGet(st.rings, donor)), LAMBDA n : n \notin dbl)
    IN TautomerWalk(m, st.rings, dbl, st.acceptors,
                    [i \in 1..Len(first) |-> <<donor, first[i], 0, 2>>], <<>>, {donor})

\* thiele was called on m with fix_tautomers and reached the tautomer fix
FixesTautomers(e) ==
    /\ e.call.op = "thiele" /\ e.call.fix_tautomers
    /\ e.before.sssr.pc = "returned"
    /\ LET st == Collected(e.before, TRUE, e.call.fix_metal_organics)
       IN st.rings # <<>> /\ st.acceptors # {} /\ st.donors # <<>>

\* the molecule after lines 145-171 for the first donor of the call e
AfterFirstDonor(e) ==
    LET st == Collected(e.before, TRUE, e.call.fix_metal_organics)
    IN TautomerMove([mol |-> e.before, acceptors |-> st.acceptors, pyroles |-> st.pyroles],
                    st.donors[1], DonorWalk(e.before, st, st.donors[1])).mol

\* the walk from the first donor of the call e reached no acceptor
FirstDonorFails(e) ==
    LET st == Collected(e.before, TRUE, e.call.fix_metal_organics)
    IN ~DonorWalk(e.before, st, st.donors[1]).found

\* C27: when the walk from a donor reaches no acceptor over a bond assigned
\* order 1, the tautomer fix of thiele leaves every bond order and every
\* hydrogen count as it was
C27_FailedDonorChangesNothing ==
    \A i \in 1..Len(m_log) :
        (FixesTautomers(m_log[i]) /\ FirstDonorFails(m_log[i]))
            => /\ AfterFirstDonor(m_log[i]).bonds = m_log[i].before.bonds
               /\ AfterFirstDonor(m_log[i]).hydrogens = m_log[i].before.hydrogens

\* the yielded path p lists every skeleton edge once, as an unordered pair of
\* atoms, with order 1 or 2, and lists nothing else
ListsEveryEdgeOnce(p) ==
    /\ {{p[i][1], p[i][2]} : i \in 1..Len(p)} = SkelEdges
    /\ Len(p) = Cardinality(SkelEdges)
    /\ \A i \in 1..Len(p) : p[i][3] \in {1, 2} /\ p[i][1] # p[i][2]

\* a call of kekule that returned True
KekuleTrue(e) == e.call.op = "kekule" /\ e.ret.kind = "return" /\ e.ret.value = "True"

\* C28: every assignment yielded by _kekule_component lists each skeleton
\* edge of the component exactly once with order 1 or 2, and after kekule
\* returned True no bond of the molecule has order 4
C28_EveryEdgeOnce ==
    /\ \A i \in 1..Len(yielded) : ListsEveryEdgeOnce(yielded[i])
    /\ \A e \in Calls : KekuleTrue(e) => NoAromaticBond(e.after)

\* kekule returned True on a molecule with aromatic bonds in fused rings, the
\* assignment of the last component still at hand
C28_Witness ==
    /\ m_pc = "idle" /\ m_log # <<>> /\ KekuleTrue(m_log[Len(m_log)])
    /\ ~NoAromaticBond(m_log[Len(m_log)].before)
    /\ \E a \in MAtoms(m_log[Len(m_log)].before) :
          Len(BondedBy(m_log[Len(m_log)].before, a, 4)) = 3
    /\ yielded # <<>> /\ ListsEveryEdgeOnce(yielded[Len(yielded)])

\* every bond of the skeleton lies in a ring: its ends stay connected without it
Bridgeless ==
    \A e \in SkelEdges : \E a \in e : e \subseteq Reach(SkelEdges \ {e}, {a})

\* the step dropped a frame and rolled the path back to the marker of the
\* last entry of the frame below, and that marker is None
NoneRollback ==
    /\ Len(stack') < Len(stack)
    /\ stack' # <<>> /\ Last(stack') # <<>>
    /\ Last(Last(stack'))[4] = None

\* the step ended in an error of the bookkeeping: a pop from an empty frame
\* (IndexError) or the removal of an absent closure entry (ValueError)
BookkeepingError == k_pc' \in {"IndexError", "ValueError"}

SkeletonBonds ==
    {<<n, k>> \in DKeys(m_skel.rings) \X DKeys(m_skel.rings) : k \in Range(DGet(m_skel.rings, n))}

\* the molecule m as __fix_rings and __prepare_rings leave it (lines 518-519)
LeftByPrepare(m) == prepare_rings(fix_rings(m)).mol

\* no bond has been given an order by __kekule_patch: the molecule is as
\* __fix_rings and __prepare_rings left the molecule of the call
NothingWritten == SameMolecule(mol, LeftByPrepare(m_before))

\* kekule ended by raising from the search of a component
KekuleFailed ==
    /\ m_pc = "idle" /\ m_call.op = "kekule"
    /\ m_ret.kind = "raise" /\ m_ret.line = 674

\* kekule ended by returning True
KekuleDone ==
    /\ m_pc = "idle" /\ m_call.op = "kekule"
    /\ m_ret.kind = "return" /\ m_ret.value = "True"

\* C30: kekule writes the orders of an assignment all or nothing: while the
\* components are searched, and when the search of a component raised, no
\* bond of the skeleton has been given an order by __kekule_patch; when
\* kekule returned True every bond of the skeleton, in every component, has
\* order 1 or 2
C30_AllOrNothing ==
    /\ (m_call.op = "kekule" /\ m_pc \in {"product", "search", "form"}) => NothingWritten
    /\ KekuleFailed => NothingWritten
    /\ KekuleDone => \A b \in SkeletonBonds : OrderIn(mol, b[1], b[2]) \in {1, 2}

\* kekule raised from the search of a component after another component of
\* the molecule had given its assignment
C30_Witness ==
    /\ KekuleFailed /\ m_form # <<>> /\ SkeletonBonds # {}
    /\ Len(components_of(m_skel.rings)) > 1

====
